---- MODULE Spec2Model ----
(***************************************************************************)
(* A model of the cricinfo acquisition and consolidation pipeline:         *)
(*   - scripts/cricinfo_scraper.py          (_scrape_innings_loop, shard   *)
(*     writer save_all_tables, fixture tracker)                            *)
(*   - scripts/combine_cricinfo_parquets.py (combine_table_type)           *)
(* Each subsystem has its own variables and its own specification; the     *)
(* variables of the other subsystems stay at their initial values.         *)
(***************************************************************************)
EXTENDS Integers, Sequences, FiniteSets, TLC

(***************************************************************************)
(* Bounds of the model (not program constants).                            *)
(***************************************************************************)
\* number of innings the source match really has (entries of the dropdown)
NumInnings == 2
\* largest record id the source hands out
MaxBallId == 1
\* payloads the response listener captures during one unit
MaxPayloads == 2
\* driver faults (crashed/hung page) injected during one unit
MaxFaults == 1
\* largest record id among the inputs of one merge (id 0: a missing id)
MaxMergeId == 2
\* captured payloads among the inputs of one merge
MaxMergePayloads == 3
\* content versions a shard of one unit can have (a re-scrape changes it)
MaxVer == 2
\* calls of save_all_tables, runs of combine_table_type and external
\* clean-ups of a unit's shards in one behaviour
MaxSaves == 1
MaxCombines == 2
MaxCleanups == 1
\* rows of one save_fixtures call
MaxBatch == 1
\* tables handed to one unify_and_concat call
MaxTables == 3
\* integer values reach 2^53 + MaxLow; values of one column
MaxLow == 2
MaxValues == 2

(***************************************************************************)
(* Program constants.                                                      *)
(***************************************************************************)
\* max_scrolls = 200
MaxScrolls == 200
\* if stale_rounds >= 5: break
StaleLimit == 5
\* for attempt in range(3)
SwitchAttempts == 3
\* if i % 15 == 14: _dismiss_overlays(page)
OverlayEvery == 15
\* overNumber / nextInningOver is None
NoneVal == -1

VARIABLES
    \* ---- the source as the driver presents it (environment) ----
    dropdown,        \* titles of the li[title] entries, one per real innings
    button_text,     \* text of the innings button at discovery time
    default_shown,   \* innings displayed after navigation or reload
    snapshot,        \* content.comments of __NEXT_DATA__
    shown,           \* innings the page currently displays
    payloads_left,   \* payloads the source may still deliver
    faults_left,     \* driver faults that may still be injected
    \* ---- _scrape_innings_loop ----
    pc,              \* position in the loop
    available_innings,
    innings_idx,
    attempt,         \* attempt counter of _switch_to_innings
    api_responses,
    ssr_balls,
    scroll_i,
    recovery,        \* the last recovery of the pagination loop (history)
    prev_count,
    stale_rounds,
    innings_balls,   \* merged list of the sub-unit merged last
    all_balls,
    innings_failures,
    \* ---- the data directory: shards and combined datasets ----
    shard,           \* file {unit id}_{kind}.parquet of the category directory
    out,             \* file cricinfo_{table_type}_{format_gender}.parquet
    tmp,             \* the .parquet.tmp file beside it
    \* ---- save_all_tables ----
    w_pc, w_unit, w_ver, w_todo,
    saves_left, cleanups_left,
    \* ---- combine_table_type ----
    table_type,      \* the kind combine_table_type is run for
    c_pc, c_merge, c_combined, c_ret,
    combines_left,
    c_start,         \* the directory as the run in progress found it (history)
    prev_run,        \* the completed run before this point (history)
    \* ---- the fixture tracker ----
    fixtures,        \* file fixtures.parquet
    f_call,          \* the last call on it: arguments, return value (history)
    f_acquired,      \* unit ids whose stored flag has been true (history)
    serial,          \* a caller's successive save_fixtures calls: the table
                     \* it started from, the batches saved, those to come
    \* ---- main's unit loop and scrape_match_commentary ----
    force,           \* args.force
    skip_metadata_only,
    finished_matches, \* the units still to process
    m_pc,            \* position in the unit loop
    match_id,        \* the unit being processed
    navigations,     \* page loads made for the unit: page and title (history)
    capture,         \* the capture list handed to _scrape_innings_loop
    result,          \* what scrape_match_commentary returned
    raised,          \* message of the exception the unit ended with
    scraped_match_ids,
    error_log,       \* rows of scrape_errors.csv
    at_start,        \* log length, shards and acquired list when the unit began
    listening,       \* on_response of the call is attached to the shared page
    context2,        \* the fresh context of the call: none, open or closed
    \* ---- unify_and_concat, for one attribute of the tables ----
    tables,          \* the attribute's type in each table, or Missing
    u_pc,            \* position in unify_and_concat
    unified_schema,  \* the attribute's type in the unified schema
    unified_tables,  \* the attribute's type in each table cast so far
    columns,         \* a call with values: per table the type and the values
    widened,         \* what that call returned
    \* ---- _detect_format and _detect_gender ----
    initial_check,   \* the metadata record read from __NEXT_DATA__
    detected,        \* what the two detectors returned, and at which return
    \* ---- the merge filter of combine_table_type on its own ----
    existing_column, \* the match_id column of the prior dataset
    id_files,        \* the unit ids of the file names listed
    id_kept,         \* the files left by the filter of lines 197-199
    \* ---- two processes in save_fixtures on the same fixture file ----
    writers,         \* per process: position, batch, rows held, open file
    fixture_tmp      \* the file fixtures.parquet.tmp both write

scrapeVars == <<dropdown, button_text, default_shown, snapshot, shown,
                payloads_left, faults_left, pc, available_innings,
                innings_idx, attempt, api_responses, ssr_balls, scroll_i,
                recovery, prev_count, stale_rounds, innings_balls, all_balls,
                innings_failures>>

storeVars == <<shard, out, tmp, w_pc, w_unit, w_ver, w_todo, saves_left,
               cleanups_left, table_type, c_pc, c_merge, c_combined, c_ret,
               combines_left, c_start, prev_run>>

fixtureVars == <<fixtures, f_call, f_acquired>>

serialVars == <<serial>>

detectVars == <<initial_check, detected>>

idVars == <<existing_column, id_files, id_kept>>

\* the variables of the parts modelled on their own
raceVars == <<writers, fixture_tmp>>

restVars == <<idVars, raceVars>>
mainVars == <<force, skip_metadata_only, finished_matches, m_pc, match_id,
              navigations, capture, result, raised, scraped_match_ids,
              error_log, at_start, listening, context2>>

unifyVars == <<tables, u_pc, unified_schema, unified_tables, columns, widened>>

vars == <<scrapeVars, storeVars, fixtureVars, serialVars, mainVars, unifyVars,
          detectVars, restVars>>

notScrape == <<storeVars, fixtureVars, serialVars, mainVars, unifyVars,
               detectVars, restVars>>
notStore == <<scrapeVars, fixtureVars, serialVars, mainVars, unifyVars,
              detectVars, restVars>>
notFixtures == <<scrapeVars, storeVars, serialVars, mainVars, unifyVars,
                 detectVars, restVars>>

(***************************************************************************)
(* Sequence helpers.                                                       *)
(***************************************************************************)
Range(s) == {s[k] : k \in 1..Len(s)}

SeqsUpTo(S, n) == UNION {[1..k -> S] : k \in 0..n}

\* a.includes(b) of JavaScript, on titles given as sequences of characters
Includes(a, b) ==
    \E k \in 0..(Len(a) - Len(b)) : SubSeq(a, k + 1, k + Len(b)) = b

(***************************************************************************)
(* Records of the source.  A comment is a ball iff its overNumber is set.  *)
(***************************************************************************)
Positions == {<<0, 0>>, <<0, 1>>, <<1, 0>>}

Comment(i, r, o, b) ==
    [id |-> i, inningNumber |-> r, overNumber |-> o, ballNumber |-> b]

\* what the source can send for innings r: its balls, the one with id i at
\* over 0, ball i, and a commentary entry that is no ball (overNumber is None)
CommentsOf(r) ==
    {Comment(i, r, 0, i) : i \in 1..MaxBallId}
      \cup {Comment(1, r, NoneVal, 0)}

Payload(cs, nxt) == [comments |-> cs, nextInningOver |-> nxt]

\* one captured hs-consumer-api /comments body for the innings displayed
PayloadsOf(r) ==
    {Payload(<<c>>, n) : c \in CommentsOf(r), n \in {NoneVal, 1}}

(***************************************************************************)
(* Combine SSR + API balls, deduplicate by id, sort (lines 729-747).       *)
(***************************************************************************)
RECURSIVE FlattenComments(_)
FlattenComments(resps) ==
    IF resps = <<>> THEN <<>>
    ELSE resps[1].comments \o FlattenComments(Tail(resps))

IsBall(c) == c.overNumber # NoneVal

RECURSIVE FilterBalls(_)
FilterBalls(cs) ==
    IF cs = <<>> THEN <<>>
    ELSE IF IsBall(cs[1]) THEN <<cs[1]>> \o FilterBalls(Tail(cs))
         ELSE FilterBalls(Tail(cs))

\* variant: the ids seen so far are not consulted
KeepBallIgnoringSeen(ball, seen) == ball.id # 0

\* if bid and bid not in seen_ids: seen_ids.add(bid); append
KeepBall(ball, seen) == ball.id # 0 /\ ball.id \notin seen

RECURSIVE DedupInto(_, _, _)
DedupInto(acc, seen, balls) ==
    IF balls = <<>> THEN acc
    ELSE IF KeepBall(balls[1], seen)
         THEN DedupInto(Append(acc, balls[1]), seen \cup {balls[1].id},
                        Tail(balls))
         ELSE DedupInto(acc, seen, Tail(balls))

\* key=lambda b: (b.get("overNumber", 0), b.get("ballNumber", 0))
KeyLess(a, b) ==
    \/ a.overNumber < b.overNumber
    \/ a.overNumber = b.overNumber /\ a.ballNumber < b.ballNumber

\* variant: an unstable sort, an element goes before the elements equal to it
RECURSIVE InsertBeforeEquals(_, _)
InsertBeforeEquals(s, x) ==
    IF s = <<>> THEN <<x>>
    ELSE IF ~KeyLess(s[1], x) THEN <<x>> \o s
         ELSE <<s[1]>> \o InsertBeforeEquals(Tail(s), x)

\* list.sort is stable: an element goes behind every element not above it
RECURSIVE InsertSorted(_, _)
InsertSorted(s, x) ==
    IF s = <<>> THEN <<x>>
    ELSE IF KeyLess(x, s[1]) THEN <<x>> \o s
         ELSE <<s[1]>> \o InsertSorted(Tail(s), x)

RECURSIVE SortBalls(_)
SortBalls(s) ==
    IF s = <<>> THEN <<>>
    ELSE InsertSorted(SortBalls(SubSeq(s, 1, Len(s) - 1)), s[Len(s)])

\* variant: the captured payloads are left out of the merge
MergeInningsSsrOnly(ssr, resps) == SortBalls(DedupInto(<<>>, {}, ssr))

\* variant: the captured records are read before the seeded ones
MergeInningsCapturedFirst(ssr, resps) ==
    SortBalls(DedupInto(<<>>, {}, FilterBalls(FlattenComments(resps)) \o ssr))

\* lines 729-747: seeded records first, then the captured ones, sorted
MergeInnings(ssr, resps) ==
    SortBalls(DedupInto(<<>>, {}, ssr \o FilterBalls(FlattenComments(resps))))

(***************************************************************************)
(* The driver's side of the page: titles, the dropdown and the listener.   *)
(***************************************************************************)
Innings == 1..NumInnings

\* titles the dropdown may carry: unrelated labels, or labels of which the
\* first is contained in the others
PlainTitles == [k \in Innings |-> <<k>>]
NestedTitles == [k \in Innings |-> IF k = 1 THEN <<1>> ELSE <<1, k>>]
DropdownConfigs == {PlainTitles, NestedTitles}

\* a button text that is no dropdown title (e.g. a team abbreviation)
OtherText == <<0>>

\* {"title": f"Innings {i+1}", "index": i} for i in range(max_innings)
FallbackTitle(i) == <<0, 10 + i + 1>>
max_innings == NumInnings
FallbackInnings == [k \in 1..max_innings |-> FallbackTitle(k - 1)]

\* the li the click script selects: the first entry whose title equals the
\* target, contains it or is contained in it; 0 when there is none
TitleMatches(title, target) ==
    title = target \/ Includes(title, target) \/ Includes(target, title)

ClickTarget(target) ==
    IF \E k \in Innings : TitleMatches(dropdown[k], target)
    THEN CHOOSE k \in Innings :
            /\ TitleMatches(dropdown[k], target)
            /\ \A j \in 1..(k - 1) : ~TitleMatches(dropdown[j], target)
    ELSE 0

\* _discover_innings: the titles in dropdown order, the one equal to the
\* button text moved to the front
IsCurrent(title) == title = button_text

RECURSIVE SelectTitles(_, _)
SelectTitles(ts, want) ==
    IF ts = <<>> THEN <<>>
    ELSE IF IsCurrent(ts[1]) = want
         THEN <<ts[1]>> \o SelectTitles(Tail(ts), want)
         ELSE SelectTitles(Tail(ts), want)

DiscoverResult == SelectTitles(dropdown, TRUE) \o SelectTitles(dropdown, FALSE)

\* payloads the listener appends while one driver call is in progress
Arrivals == SeqsUpTo(PayloadsOf(shown), payloads_left)
ArrivalsFor(r) == SeqsUpTo(PayloadsOf(r), payloads_left)

(***************************************************************************)
(* _scrape_innings_loop                                                    *)
(***************************************************************************)
\* the url argument of _recover_page when the caller passes none
NoUrl == "None"
\* the url a caller passes (lines 348, 502, 510)
FullUrl == "full_url"

\* lines 158-183: the reload, then page.goto(url) if a url was given; a step
\* works when it neither raises nor leaves the page unresponsive
RecoverPage(url, reload_ok, goto_ok) ==
    reload_ok \/ (url # NoUrl /\ goto_ok)

\* the last call of _recover_page in the pagination loop: whether the reload
\* worked, whether a direct navigation would work, and what was returned
\* (history)
NoRecovery ==
    [called |-> FALSE, reload |-> FALSE, goto_works |-> FALSE, ret |-> FALSE]
Recovery(url, reload_ok, goto_ok) ==
    [called |-> TRUE, reload |-> reload_ok, goto_works |-> goto_ok,
     ret |-> RecoverPage(url, reload_ok, goto_ok)]

sourceVars == <<dropdown, button_text, default_shown, snapshot>>
roundVars == <<scroll_i, prev_count, stale_rounds, recovery>>

Failure(idx, kind) == [innings |-> idx + 1, error_type |-> kind]

ScrapeInit ==
    /\ dropdown \in DropdownConfigs
    /\ default_shown \in Innings
    /\ button_text \in {dropdown[default_shown], OtherText}
    /\ snapshot \in SeqsUpTo(CommentsOf(default_shown), 1)
    /\ shown = default_shown
    /\ payloads_left = MaxPayloads
    /\ faults_left = MaxFaults
    /\ pc = "check"
    /\ available_innings = <<>>
    /\ innings_idx = 0
    /\ attempt = 0
    /\ api_responses = <<>>
    /\ ssr_balls = <<>>
    /\ scroll_i = 0
    /\ recovery = NoRecovery
    /\ prev_count = 0
    /\ stale_rounds = 0
    /\ innings_balls = <<>>
    /\ all_balls = <<>>
    /\ innings_failures = <<>>

\* a driver call raises outside every try block: the loop is left
Raise ==
    /\ faults_left > 0
    /\ faults_left' = faults_left - 1
    /\ pc' = "raised"
    /\ UNCHANGED <<sourceVars, shown, payloads_left, available_innings,
                   innings_idx, attempt, api_responses, ssr_balls, roundVars,
                   innings_balls, all_balls, innings_failures>>

\* lines 575-614: hasBalls of the snapshot; without balls return at once
has_balls == \E k \in 1..Len(snapshot) : IsBall(snapshot[k])

InitialCheck ==
    /\ pc = "check"
    /\ \/ /\ pc' = IF has_balls THEN "discover" ELSE "done"
          /\ UNCHANGED <<sourceVars, shown, payloads_left, faults_left,
                         available_innings, innings_idx, attempt,
                         api_responses, ssr_balls, roundVars, innings_balls,
                         all_balls, innings_failures>>
       \/ Raise
    /\ UNCHANGED notScrape

\* lines 619-627: discovery, else the synthesized fallback list
Discover ==
    /\ pc = "discover"
    /\ \E found \in BOOLEAN :
          available_innings' = IF found THEN DiscoverResult ELSE FallbackInnings
    /\ innings_idx' = 0
    /\ pc' = "head"
    /\ UNCHANGED <<sourceVars, shown, payloads_left, faults_left, attempt,
                   api_responses, ssr_balls, roundVars, innings_balls,
                   all_balls, innings_failures>>
    /\ UNCHANGED notScrape

\* line 629: the for statement; lines 630-631 for a later sub-unit
LoopHead ==
    /\ pc = "head"
    /\ IF innings_idx >= Len(available_innings)
       THEN /\ pc' = "done"
            /\ UNCHANGED <<api_responses, attempt>>
       ELSE IF innings_idx > 0
            THEN /\ api_responses' = <<>>
                 /\ attempt' = 0
                 /\ pc' = "switch"
            ELSE /\ pc' = "ssr"
                 /\ UNCHANGED <<api_responses, attempt>>
    /\ UNCHANGED <<sourceVars, shown, payloads_left, faults_left,
                   available_innings, innings_idx, ssr_balls, roundVars,
                   innings_balls, all_balls, innings_failures>>
    /\ UNCHANGED notScrape

\* lines 635-643: the switch raised; record the failure and continue
SwitchFailed ==
    /\ innings_failures' =
          Append(innings_failures, Failure(innings_idx, "innings_switch_timeout"))
    /\ innings_idx' = innings_idx + 1
    /\ pc' = "head"

CurrentTitle == available_innings[innings_idx + 1]

\* one pass of the attempt loop of _switch_to_innings (lines 1112-1181)
SwitchAttempt ==
    /\ pc = "switch"
    /\ \E outcome \in {"no_button", "no_tippy", "closed", "click", "fault"} :
         \/ /\ outcome \in {"no_button", "no_tippy", "closed"}
            /\ IF attempt < SwitchAttempts - 1
               THEN /\ attempt' = attempt + 1
                    /\ UNCHANGED <<pc, innings_idx, innings_failures>>
               ELSE /\ SwitchFailed
                    /\ UNCHANGED attempt
            /\ UNCHANGED <<shown, payloads_left, faults_left, api_responses,
                           ssr_balls>>
         \/ /\ outcome = "click"
            /\ IF ClickTarget(CurrentTitle) = 0
               THEN /\ SwitchFailed
                    /\ UNCHANGED <<shown, payloads_left, api_responses,
                                   ssr_balls>>
               ELSE /\ shown' = ClickTarget(CurrentTitle)
                    /\ \E new \in ArrivalsFor(ClickTarget(CurrentTitle)) :
                          /\ api_responses' = api_responses \o new
                          /\ payloads_left' = payloads_left - Len(new)
                    /\ ssr_balls' = <<>>
                    /\ pc' = "clear"
                    /\ UNCHANGED <<innings_idx, innings_failures>>
            /\ UNCHANGED <<attempt, faults_left>>
         \/ /\ outcome = "fault"
            /\ faults_left > 0
            /\ faults_left' = faults_left - 1
            /\ SwitchFailed
            /\ UNCHANGED <<shown, payloads_left, attempt, api_responses,
                           ssr_balls>>
    /\ UNCHANGED <<sourceVars, available_innings, roundVars, innings_balls,
                   all_balls>>
    /\ UNCHANGED notScrape

\* lines 649-682: the first sub-unit is seeded from the snapshot
SsrEval ==
    /\ pc = "ssr"
    /\ \/ \E error \in BOOLEAN :
             /\ IF error \/ snapshot = <<>>
                THEN /\ innings_failures' =
                          Append(innings_failures,
                                 Failure(innings_idx, "no_ssr_data"))
                     /\ innings_idx' = innings_idx + 1
                     /\ pc' = "head"
                     /\ UNCHANGED ssr_balls
                ELSE /\ ssr_balls' = FilterBalls(snapshot)
                     /\ pc' = "clear"
                     /\ UNCHANGED <<innings_idx, innings_failures>>
             /\ UNCHANGED <<sourceVars, shown, payloads_left, faults_left,
                            available_innings, attempt, api_responses,
                            roundVars, innings_balls, all_balls>>
       \/ Raise
    /\ UNCHANGED notScrape

\* lines 684-693: clear the capture list, dismiss overlays, reset the round
\* counters; payloads may arrive while the overlay script runs
ClearAndDismiss ==
    /\ pc = "clear"
    /\ \/ /\ \E new \in Arrivals :
                /\ api_responses' = new
                /\ payloads_left' = payloads_left - Len(new)
          /\ scroll_i' = 0
          /\ recovery' = NoRecovery
          /\ prev_count' = 0
          /\ stale_rounds' = 0
          /\ pc' = "scroll"
          /\ UNCHANGED <<sourceVars, shown, faults_left, available_innings,
                         innings_idx, attempt, ssr_balls, innings_balls,
                         all_balls, innings_failures>>
       \/ Raise
    /\ UNCHANGED notScrape


\* variant: a round with a new payload leaves the stale counter as it is
RoundEndKeepingStale(resps) ==
    IF Len(resps) > prev_count
    THEN /\ prev_count' = Len(resps)
         /\ UNCHANGED stale_rounds
         /\ pc' = IF resps[Len(resps)].nextInningOver = NoneVal
                  THEN "merge" ELSE "scroll"
    ELSE /\ stale_rounds' = stale_rounds + 1
         /\ pc' = IF stale_rounds + 1 >= StaleLimit THEN "merge" ELSE "scroll"
         /\ UNCHANGED prev_count

\* lines 717-727 after a round without fault
RoundEnd(resps) ==
    IF Len(resps) > prev_count
    THEN /\ prev_count' = Len(resps)
         /\ stale_rounds' = 0
         /\ pc' = IF resps[Len(resps)].nextInningOver = NoneVal
                  THEN "merge" ELSE "scroll"
    ELSE /\ stale_rounds' = stale_rounds + 1
         /\ pc' = IF stale_rounds + 1 >= StaleLimit THEN "merge" ELSE "scroll"
         /\ UNCHANGED prev_count

\* variant: a round lost to a recovered fault is not counted against the cap
ScrollRoundRepeatedOnFault ==
    /\ pc = "scroll"
    /\ IF scroll_i >= MaxScrolls
       THEN /\ pc' = "merge"
            /\ UNCHANGED <<shown, payloads_left, faults_left, api_responses,
                           roundVars>>
       ELSE \/ \* the key press raises: recover or abort the sub-unit
               /\ faults_left > 0
               /\ faults_left' = faults_left - 1
               /\ \E reload_ok \in BOOLEAN :
                  \E goto_ok \in IF reload_ok THEN {FALSE} ELSE BOOLEAN :
                     /\ recovery' = Recovery(NoUrl, reload_ok, goto_ok)
                     /\ IF RecoverPage(NoUrl, reload_ok, goto_ok)
                        THEN /\ shown' = default_shown
                             /\ stale_rounds' = stale_rounds + 1
                             /\ UNCHANGED <<pc, prev_count, scroll_i>>
                        ELSE /\ pc' = "merge"
                             /\ UNCHANGED <<shown, scroll_i, prev_count,
                                            stale_rounds>>
               /\ UNCHANGED <<payloads_left, api_responses>>
            \/ \* the key press works; payloads may arrive during the wait
               /\ \E new \in Arrivals :
                     /\ api_responses' = api_responses \o new
                     /\ payloads_left' = payloads_left - Len(new)
                     /\ RoundEnd(api_responses \o new)
               /\ scroll_i' = scroll_i + 1
               /\ UNCHANGED <<shown, faults_left, recovery>>
            \/ \* the periodic overlay dismissal raises (line 715)
               /\ scroll_i % OverlayEvery = OverlayEvery - 1
               /\ faults_left > 0
               /\ faults_left' = faults_left - 1
               /\ pc' = "raised"
               /\ UNCHANGED <<shown, payloads_left, api_responses, roundVars>>
    /\ UNCHANGED <<sourceVars, available_innings, innings_idx, attempt,
                   ssr_balls, innings_balls, all_balls, innings_failures>>
    /\ UNCHANGED notScrape

\* one pass of the pagination loop (lines 695-727)
ScrollRound ==
    /\ pc = "scroll"
    /\ IF scroll_i >= MaxScrolls
       THEN /\ pc' = "merge"
            /\ UNCHANGED <<shown, payloads_left, faults_left, api_responses,
                           roundVars>>
       ELSE \/ \* the key press raises: recover or abort the sub-unit
               /\ faults_left > 0
               /\ faults_left' = faults_left - 1
               /\ \E reload_ok \in BOOLEAN :
                  \E goto_ok \in IF reload_ok THEN {FALSE} ELSE BOOLEAN :
                     /\ recovery' = Recovery(NoUrl, reload_ok, goto_ok)
                     /\ IF RecoverPage(NoUrl, reload_ok, goto_ok)
                        THEN /\ shown' = default_shown
                             /\ stale_rounds' = stale_rounds + 1
                             /\ scroll_i' = scroll_i + 1
                             /\ UNCHANGED <<pc, prev_count>>
                        ELSE /\ pc' = "merge"
                             /\ UNCHANGED <<shown, scroll_i, prev_count,
                                            stale_rounds>>
               /\ UNCHANGED <<payloads_left, api_responses>>
            \/ \* the key press works; payloads may arrive during the wait
               /\ \E new \in Arrivals :
                     /\ api_responses' = api_responses \o new
                     /\ payloads_left' = payloads_left - Len(new)
                     /\ RoundEnd(api_responses \o new)
               /\ scroll_i' = scroll_i + 1
               /\ UNCHANGED <<shown, faults_left, recovery>>
            \/ \* the periodic overlay dismissal raises (line 715)
               /\ scroll_i % OverlayEvery = OverlayEvery - 1
               /\ faults_left > 0
               /\ faults_left' = faults_left - 1
               /\ pc' = "raised"
               /\ UNCHANGED <<shown, payloads_left, api_responses, roundVars>>
    /\ UNCHANGED <<sourceVars, available_innings, innings_idx, attempt,
                   ssr_balls, innings_balls, all_balls, innings_failures>>
    /\ UNCHANGED notScrape

\* lines 729-770: merge the sub-unit and extend the aggregate
MergeStep ==
    /\ pc = "merge"
    /\ LET merged == MergeInnings(ssr_balls, api_responses) IN
         /\ innings_balls' = merged
         /\ all_balls' = all_balls \o merged
         /\ innings_failures' =
               IF merged = <<>> /\ innings_idx > 0
               THEN Append(innings_failures, Failure(innings_idx, "no_ball_data"))
               ELSE innings_failures
    /\ innings_idx' = innings_idx + 1
    /\ pc' = "head"
    /\ UNCHANGED <<sourceVars, shown, payloads_left, faults_left,
                   available_innings, attempt, api_responses, ssr_balls,
                   roundVars>>
    /\ UNCHANGED notScrape

ScrapeNext ==
    \/ InitialCheck
    \/ Discover
    \/ LoopHead
    \/ SwitchAttempt
    \/ SsrEval
    \/ ClearAndDismiss
    \/ ScrollRound
    \/ MergeStep


\* a driver fault in a round without overlay dismissal: the key press raised
KeyPressFault ==
    /\ pc = "scroll"
    /\ faults_left' < faults_left
    /\ scroll_i % OverlayEvery # OverlayEvery - 1

CapturedIds(resps) ==
    {c.id : c \in Range(FilterBalls(FlattenComments(resps)))} \ {0}

\* C15: a key press fault either leaves the pagination of the same sub-unit
\* running with one more stale round (recovery worked) or ends it (recovery
\* failed) with the captured payloads kept, and the merge that follows puts
\* every captured record with an id into the aggregate
C15_ScrollFaultStep ==
    [][/\ KeyPressFault =>
            \/ /\ pc' = "scroll"
               /\ stale_rounds' = stale_rounds + 1
               /\ UNCHANGED <<innings_idx, api_responses, ssr_balls,
                              all_balls, innings_failures>>
            \/ /\ pc' = "merge"
               /\ UNCHANGED <<innings_idx, api_responses, ssr_balls,
                              all_balls, innings_failures>>
       /\ pc = "merge" =>
            /\ pc' = "head"
            /\ SubSeq(all_balls', 1, Len(all_balls)) = all_balls
            /\ CapturedIds(api_responses) \subseteq
                  {all_balls'[k].id : k \in (Len(all_balls) + 1)..Len(all_balls')}
      ]_vars

\* the first sub-unit is still being paginated after a fault (every other
\* fault before this point ends the loop), with payloads captured
C15_Witness ==
    /\ pc = "scroll"
    /\ innings_idx = 0
    /\ faults_left < MaxFaults
    /\ stale_rounds >= 1
    /\ api_responses # <<>>

\* C14 as stated: once records of an earlier sub-unit are merged, no driver
\* fault in a later sub-unit makes the loop end without returning them
C14_LaterFaultKeepsMerged ==
    (innings_idx > 0 /\ all_balls # <<>>) => pc # "raised"

(***************************************************************************)
(* The merge of one sub-unit on its own: the state at line 729 with any    *)
(* seeded records and any captured payloads, then lines 729-770.           *)
(***************************************************************************)
MergeBalls ==
    {Comment(i, 1, p[1], p[2]) : i \in 0..MaxMergeId, p \in Positions}
MergeComments == MergeBalls \cup {Comment(1, 1, NoneVal, 0)}
MergePayloads == {Payload(cs, NoneVal) : cs \in SeqsUpTo(MergeComments, 1)}

MergeInit ==
    /\ dropdown = PlainTitles
    /\ default_shown = 1
    /\ button_text = PlainTitles[1]
    /\ snapshot = <<>>
    /\ shown = 1
    /\ payloads_left = 0
    /\ faults_left = 0
    /\ pc = "merge"
    /\ available_innings = DiscoverResult
    /\ innings_idx \in {0, 1}
    /\ attempt = 0
    /\ api_responses \in SeqsUpTo(MergePayloads, MaxMergePayloads)
    /\ ssr_balls \in IF innings_idx = 0 THEN SeqsUpTo(MergeBalls, 1) ELSE {<<>>}
    /\ scroll_i = 0
    /\ recovery = NoRecovery
    /\ prev_count = 0
    /\ stale_rounds = 0
    /\ innings_balls = <<>>
    /\ all_balls = <<>>
    /\ innings_failures = <<>>


(***************************************************************************)
(* The pagination of one sub-unit on its own: the state at line 695, the   *)
(* capture list just cleared, then lines 695-770.                          *)
(***************************************************************************)
PaginateInit ==
    /\ dropdown = PlainTitles
    /\ default_shown = 1
    /\ button_text = PlainTitles[1]
    /\ snapshot = <<>>
    /\ innings_idx \in {0, 1}
    /\ shown = innings_idx + 1
    /\ payloads_left = MaxPayloads
    /\ faults_left = MaxFaults
    /\ pc = "scroll"
    /\ available_innings = DiscoverResult
    /\ attempt = 0
    /\ api_responses = <<>>
    /\ ssr_balls \in IF innings_idx = 0
                     THEN SeqsUpTo({Comment(1, 1, 0, 1)}, 1) ELSE {<<>>}
    /\ scroll_i = 0
    /\ recovery = NoRecovery
    /\ prev_count = 0
    /\ stale_rounds = 0
    /\ innings_balls = <<>>
    /\ all_balls \in IF innings_idx = 0
                     THEN {<<>>} ELSE SeqsUpTo({Comment(1, 1, 0, 1)}, 1)
    /\ innings_failures = <<>>

PaginateNext == ScrollRound \/ MergeStep

(***************************************************************************)
(* Claims on the session scraper.                                          *)
(***************************************************************************)
NoDuplicateIds(s) ==
    \A j, k \in 1..Len(s) : j # k => s[j].id # s[k].id

SortedByPosition(s) ==
    \A k \in 1..(Len(s) - 1) : ~KeyLess(s[k + 1], s[k])

\* C1: the record list merged for a sub-unit holds no two records with the
\* same record id and is ordered non-decreasingly by (overNumber, ballNumber)
C1_MergedUniqueAndSorted ==
    NoDuplicateIds(innings_balls) /\ SortedByPosition(innings_balls)

\* C1 witness: a merge of inputs that repeat an id and arrive out of order
\* has produced a list of at least two records
C1_Witness ==
    LET input == ssr_balls \o FilterBalls(FlattenComments(api_responses)) IN
      /\ pc = "head"
      /\ Len(innings_balls) >= 2
      /\ ~NoDuplicateIds(input)
      /\ ~SortedByPosition(input)

SameRecord(a, b) == a.inningNumber = b.inningNumber /\ a.id = b.id

\* C2: after a complete run the unit's aggregate record list holds no two
\* records with the same (sub-unit, record id)
C2_AggregateHasNoDuplicate ==
    pc = "done" =>
        \A j, k \in 1..Len(all_balls) :
            j # k => ~SameRecord(all_balls[j], all_balls[k])

(***************************************************************************)
(* The data directory.  A file is absent, partially written (no footer,    *)
(* unreadable) or complete; a complete file holds rows.                    *)
(***************************************************************************)
\* unit ids as digit strings: "1", "2", "10"
UnitIds == {<<1>>, <<2>>, <<1, 0>>}
\* "innings" is handled exactly like "match" (line 190)
Kinds == {"balls", "match"}
Versions == 1..MaxVer

Absent == [st |-> "absent", rows |-> <<>>]
Partial == [st |-> "partial", rows |-> <<>>]
Complete(rows) == [st |-> "complete", rows |-> rows]

Exists(f) == f.st # "absent"
Readable(f) == f.st = "complete"

Row(u, n, v) == [match_id |-> u, rid |-> n, ver |-> v]
\* the columns of flatten_ball hold no match_id
BallRow(n, v) == [rid |-> n, ver |-> v]

\* the table save_all_tables builds for one kind: the unit's flattened
\* records, or the single row of match metadata (match_id: match.objectId)
ShardTable(u, kind, v) ==
    IF kind = "balls" THEN <<BallRow(1, v), BallRow(2, v)>>
    ELSE <<Row(u, 0, v)>>

\* a category directory left by earlier complete saves of some units
SavedDir(present) ==
    [u \in UnitIds |-> [k \in Kinds |->
        IF u \in present THEN Complete(ShardTable(u, k, 1)) ELSE Absent]]
SavedDirs == {SavedDir(p) : p \in SUBSET UnitIds}
EmptyDir == [u \in UnitIds |-> [k \in Kinds |-> Absent]]

(***************************************************************************)
(* save_all_tables (lines 1238-1272): pq.write_table straight to outpath.  *)
(***************************************************************************)
writerVars == <<w_pc, w_unit, w_ver, w_todo, saves_left>>
combineVars == <<table_type, c_pc, c_merge, c_combined, c_ret, combines_left,
                 c_start, prev_run>>

\* the kinds the call writes, in the order of lines 1251, 1259
KindsToWrite(balls, match_meta) ==
    (IF balls THEN <<"balls">> ELSE <<>>)
      \o (IF match_meta THEN <<"match">> ELSE <<>>)

SaveStart ==
    /\ w_pc = "idle"
    /\ saves_left > 0
    /\ \E u \in UnitIds, v \in Versions, balls, match_meta \in BOOLEAN :
          /\ balls \/ match_meta
          /\ w_unit' = u
          /\ w_ver' = v
          /\ w_todo' = KindsToWrite(balls, match_meta)
    /\ w_pc' = "next"
    /\ saves_left' = saves_left - 1
    /\ UNCHANGED <<shard, out, tmp, cleanups_left, combineVars>>
    /\ UNCHANGED notStore

\* the file a write goes to while it is in progress
OpenForWrite(f) == Partial

\* pq.write_table creates or truncates outpath and starts writing
ShardWriteOpen ==
    /\ w_pc = "next"
    /\ w_todo # <<>>
    /\ shard' = [shard EXCEPT ![w_unit][Head(w_todo)] = OpenForWrite(@)]
    /\ w_pc' = "writing"
    /\ UNCHANGED <<out, tmp, w_unit, w_ver, w_todo, saves_left, cleanups_left,
                   combineVars>>
    /\ UNCHANGED notStore

\* pq.write_table writes the footer and closes the file
ShardWriteClose ==
    /\ w_pc = "writing"
    /\ shard' = [shard EXCEPT ![w_unit][Head(w_todo)] =
                    Complete(ShardTable(w_unit, Head(w_todo), w_ver))]
    /\ w_todo' = Tail(w_todo)
    /\ w_pc' = "next"
    /\ UNCHANGED <<out, tmp, w_unit, w_ver, saves_left, cleanups_left,
                   combineVars>>
    /\ UNCHANGED notStore

\* return saved
SaveReturn ==
    /\ w_pc = "next"
    /\ w_todo = <<>>
    /\ w_pc' = "idle"
    /\ UNCHANGED <<shard, out, tmp, w_unit, w_ver, w_todo, saves_left,
                   cleanups_left, combineVars>>
    /\ UNCHANGED notStore

\* the scraper process dies (kill, power loss) inside save_all_tables
WriterCrash ==
    /\ w_pc \in {"next", "writing"}
    /\ w_pc' = "idle"
    /\ w_todo' = <<>>
    /\ UNCHANGED <<shard, out, tmp, w_unit, w_ver, saves_left, cleanups_left,
                   combineVars>>
    /\ UNCHANGED notStore

\* per-match files of a unit are absent from the category directory the
\* next run sees (merge mode keeps their rows, lines 164-180)
ShardsCleanedUp ==
    /\ cleanups_left > 0
    /\ w_pc = "idle"
    /\ \E u \in UnitIds :
          /\ \E k \in Kinds : Exists(shard[u][k])
          /\ shard' = [shard EXCEPT ![u] = [k \in Kinds |-> Absent]]
    /\ cleanups_left' = cleanups_left - 1
    /\ UNCHANGED <<out, tmp, writerVars, combineVars>>
    /\ UNCHANGED notStore

(***************************************************************************)
(* combine_table_type (lines 146-268)                                      *)
(***************************************************************************)
\* data_dir.glob(pattern): the files of one kind
GlobKind(kind) == {u \in DOMAIN shard : Exists(shard[u][kind])}

\* the orders in which the directory may list them
Listings(S) ==
    {l \in [1..Cardinality(S) -> S] : \A u \in S : \E k \in DOMAIN l : l[k] = u}

\* the characters of "{id}_": digits are below the underscore
NameChars(u) ==
    [k \in 1..(Len(u) + 1) |-> IF k <= Len(u) THEN 48 + u[k] ELSE 95]

\* order of the file names, which differ within "{id}_"
FileLess(a, b) ==
    LET x == NameChars(a)
        y == NameChars(b)
    IN \E k \in 1..Len(x) :
          /\ k <= Len(y)
          /\ \A j \in 1..(k - 1) : x[j] = y[j]
          /\ x[k] < y[k]

RECURSIVE InsertFile(_, _)
InsertFile(s, f) ==
    IF s = <<>> THEN <<f>>
    ELSE IF FileLess(f, s[1]) THEN <<f>> \o s
         ELSE <<s[1]>> \o InsertFile(Tail(s), f)

RECURSIVE SortedFiles(_)
SortedFiles(l) ==
    IF l = <<>> THEN <<>>
    ELSE InsertFile(SortedFiles(SubSeq(l, 1, Len(l) - 1)), l[Len(l)])

\* variant: the listing is used as the directory gives it
ListFilesUnsorted(listing) == listing

\* files = sorted(data_dir.glob(pattern))
ListFiles(listing) == SortedFiles(listing)

\* extract_match_id: the id, or NoId when it is not all digits
NoId == <<>>
ExtractMatchId(u) ==
    IF u # <<>> /\ \A k \in 1..Len(u) : u[k] \in 0..9 THEN u ELSE NoId

NoTable == [present |-> FALSE, rows |-> <<>>]
Table(rows) == [present |-> TRUE, rows |-> rows]

\* variant: the prior dataset is never read
ExistingTableDropped(merge) == NoTable

\* lines 164-177: the prior dataset, read in merge mode only
ExistingTable(merge) ==
    IF merge /\ Readable(out) THEN Table(out.rows) ELSE NoTable

ExistingIds(t) == {t.rows[k].match_id : k \in 1..Len(t.rows)}

\* variant: the balls files are not looked at
HasBallsFileOrNot(u) == TRUE

\* lines 190-195: match and innings files need a balls file beside them
HasBallsFile(u) == u \in GlobKind("balls")

\* variant: a file is loaded whatever its name
LoadsAnyName(dir, u, kind) == Readable(dir[u][kind])

\* variant: no file is taken as combined already
NeverCombined(u, ids) == FALSE

\* lines 197-199: skip the files of units the prior dataset holds
AlreadyCombined(u, ids) == ExtractMatchId(u) \in ids

RECURSIVE KeepFiles(_, _, _)
KeepFiles(files, kind, ids) ==
    IF files = <<>> THEN <<>>
    ELSE LET f == files[1]
             keep == /\ (kind = "balls" \/ HasBallsFile(f))
                     /\ ~AlreadyCombined(f, ids)
         IN (IF keep THEN <<f>> ELSE <<>>) \o KeepFiles(Tail(files), kind, ids)

\* lines 206-234: a file that cannot be read or has no numeric id is skipped
Loads(dir, u, kind) == Readable(dir[u][kind]) /\ ExtractMatchId(u) # NoId

\* lines 219-229: every row carries the unit id of the file name
WithMatchId(u, row) ==
    [match_id |-> ExtractMatchId(u), rid |-> row.rid, ver |-> row.ver]

LoadTable(dir, u, kind) ==
    LET t == dir[u][kind].rows IN
      IF kind = "balls" THEN [k \in 1..Len(t) |-> WithMatchId(u, t[k])] ELSE t

RECURSIVE ConcatTables(_, _, _)
ConcatTables(dir, files, kind) ==
    IF files = <<>> THEN <<>>
    ELSE (IF Loads(dir, files[1], kind) THEN LoadTable(dir, files[1], kind)
          ELSE <<>>)
           \o ConcatTables(dir, Tail(files), kind)

NoWrite(n) == [write |-> FALSE, rows |-> <<>>, ret |-> n]
DoWrite(rows) == [write |-> TRUE, rows |-> rows, ret |-> Len(rows)]

\* variant: the run gives up and writes nothing
CombinePlanGivingUp(kind, merge, listing) == NoWrite(0)

\* variant: the rows of the new shards are put before the prior rows
CombinePlanNewFirst(kind, merge, listing) ==
    LET existing == ExistingTable(merge)
        ids == IF existing.present THEN ExistingIds(existing) ELSE {}
        files == ListFiles(listing)
        kept == KeepFiles(files, kind, ids)
        loaded == \E k \in 1..Len(kept) : Loads(shard, kept[k], kind)
    IN IF files = <<>> /\ ~existing.present THEN NoWrite(0)
       ELSE IF ids # {} /\ kept = <<>> THEN NoWrite(Len(existing.rows))
       ELSE IF ~loaded
            THEN NoWrite(IF existing.present THEN Len(existing.rows) ELSE 0)
       ELSE DoWrite(ConcatTables(shard, kept, kind) \o existing.rows)

\* lines 164-258: what the run decides before it writes
CombinePlan(kind, merge, listing) ==
    LET existing == ExistingTable(merge)
        ids == IF existing.present THEN ExistingIds(existing) ELSE {}
        files == ListFiles(listing)
        kept == KeepFiles(files, kind, ids)
        loaded == \E k \in 1..Len(kept) : Loads(shard, kept[k], kind)
    IN IF files = <<>> /\ ~existing.present THEN NoWrite(0)
       ELSE IF ids # {} /\ kept = <<>> THEN NoWrite(Len(existing.rows))
       ELSE IF ~loaded
            THEN NoWrite(IF existing.present THEN Len(existing.rows) ELSE 0)
       ELSE DoWrite(existing.rows \o ConcatTables(shard, kept, kind))

\* variant: the table is written to out_path itself
WritePathIsTarget == "out"

\* tmp_path = out_path.with_suffix('.parquet.tmp'); pq.write_table(.., tmp_path)
WritePath == "tmp"

\* history: the run that completed last, and what the one before it left
NoStart == [shards |-> EmptyDir, prior |-> Absent]
NoRun ==
    [n |-> 0, merge |-> FALSE, shards |-> EmptyDir, prior |-> Absent,
     out |-> Absent, ret |-> 0, again |-> FALSE, prev_out |-> Absent,
     prev_ret |-> 0]
Completed(hist, merge, start, ret, after) ==
    [n |-> hist.n + 1, merge |-> merge, shards |-> start.shards,
     prior |-> start.prior, out |-> after, ret |-> ret,
     again |-> hist.n > 0 /\ hist.merge = merge /\ hist.shards = start.shards,
     prev_out |-> hist.out, prev_ret |-> hist.ret]

CombineStart ==
    /\ c_pc = "idle"
    /\ combines_left > 0
    /\ combines_left' = combines_left - 1
    /\ \E merge \in BOOLEAN :
        \E listing \in Listings(GlobKind(table_type)) :
          LET plan == CombinePlan(table_type, merge, listing)
              start == [shards |-> shard, prior |-> out]
          IN /\ c_merge' = merge
             /\ c_start' = start
             /\ IF plan.write
                THEN /\ c_combined' = plan.rows
                     /\ c_pc' = "write"
                     /\ UNCHANGED <<c_ret, prev_run>>
                ELSE /\ c_ret' = plan.ret
                     /\ prev_run' = Completed(prev_run, merge, start, plan.ret, out)
                     /\ UNCHANGED <<c_combined, c_pc>>
    /\ UNCHANGED <<shard, out, tmp, writerVars, cleanups_left, table_type>>
    /\ UNCHANGED notStore

\* pq.write_table(combined, tmp_path) creates the file and starts writing
CombineWriteOpen ==
    /\ c_pc = "write"
    /\ IF WritePath = "tmp"
       THEN tmp' = OpenForWrite(tmp) /\ UNCHANGED out
       ELSE out' = OpenForWrite(out) /\ UNCHANGED tmp
    /\ c_pc' = "writing"
    /\ UNCHANGED <<shard, writerVars, cleanups_left, table_type, c_merge,
                   c_combined, c_ret, combines_left, c_start, prev_run>>
    /\ UNCHANGED notStore

\* pq.write_table finishes
CombineWriteClose ==
    /\ c_pc = "writing"
    /\ IF WritePath = "tmp"
       THEN tmp' = Complete(c_combined) /\ UNCHANGED out
       ELSE out' = Complete(c_combined) /\ UNCHANGED tmp
    /\ c_pc' = "rename"
    /\ UNCHANGED <<shard, writerVars, cleanups_left, table_type, c_merge,
                   c_combined, c_ret, combines_left, c_start, prev_run>>
    /\ UNCHANGED notStore

\* tmp_path.replace(out_path); return combined.num_rows
CombineReplace ==
    /\ c_pc = "rename"
    /\ LET after == IF WritePath = "tmp" THEN tmp ELSE out IN
         /\ out' = after
         /\ prev_run' = Completed(prev_run, c_merge, c_start, Len(c_combined), after)
    /\ tmp' = Absent
    /\ c_ret' = Len(c_combined)
    /\ c_pc' = "idle"
    /\ UNCHANGED <<shard, writerVars, cleanups_left, table_type, c_merge,
                   c_combined, combines_left, c_start>>
    /\ UNCHANGED notStore

\* the combining process dies before it returns
CombineCrash ==
    /\ c_pc \in {"write", "writing", "rename"}
    /\ c_pc' = "idle"
    /\ UNCHANGED <<shard, out, tmp, writerVars, cleanups_left, table_type,
                   c_merge, c_combined, c_ret, combines_left, c_start, prev_run>>
    /\ UNCHANGED notStore

\* neither process is running
ProcessesAtRest ==
    /\ tmp = Absent
    /\ w_pc = "idle"
    /\ w_unit = <<1>>
    /\ w_ver = 1
    /\ w_todo = <<>>
    /\ c_pc = "idle"
    /\ c_merge = FALSE
    /\ c_combined = <<>>
    /\ c_ret = 0
    /\ prev_run = NoRun

\* nothing has been combined yet
StoreAtRest ==
    /\ out = Absent
    /\ c_start = NoStart
    /\ ProcessesAtRest

StoreInit ==
    /\ shard \in SavedDirs
    /\ table_type \in Kinds
    /\ saves_left = MaxSaves
    /\ cleanups_left = MaxCleanups
    /\ combines_left = MaxCombines
    /\ StoreAtRest

StoreIdle ==
    /\ shard = EmptyDir
    /\ table_type = "balls"
    /\ saves_left = 0
    /\ cleanups_left = 0
    /\ combines_left = 0
    /\ StoreAtRest

\* what earlier saves, complete or cut short, leave of one unit: nothing,
\* both files, the match file alone, a truncated balls file, or a balls file
\* beside a truncated match file
UnitShards(u) ==
    {[balls |-> Absent, match |-> Absent],
     [balls |-> Absent, match |-> Complete(ShardTable(u, "match", 1))],
     [balls |-> Partial, match |-> Absent],
     [balls |-> Complete(ShardTable(u, "balls", 1)), match |-> Partial]}
      \cup {[k \in Kinds |-> Complete(ShardTable(u, k, v))] : v \in Versions}

LeftDirs == {dir \in [UnitIds -> UNION {UnitShards(u) : u \in UnitIds}] :
                \A u \in UnitIds : dir[u] \in UnitShards(u)}

\* the dataset an earlier full rebuild left of the complete shards of units S
PriorOf(S, kind) ==
    IF S = {} THEN Absent
    ELSE Complete(ConcatTables(SavedDir(S),
                               ListFiles(CHOOSE l \in Listings(S) : TRUE), kind))

\* combine_table_type is run over a directory and a dataset left by earlier
\* scrapes and runs; the scraper is not running
CombineInit ==
    /\ shard \in LeftDirs
    /\ table_type \in Kinds
    /\ out \in {PriorOf(S, table_type) : S \in SUBSET UnitIds}
    /\ c_start = [shards |-> shard, prior |-> out]
    /\ saves_left = 0
    /\ cleanups_left = 0
    /\ combines_left = MaxCombines
    /\ ProcessesAtRest

CombineNext ==
    \/ CombineStart
    \/ CombineWriteOpen
    \/ CombineWriteClose
    \/ CombineReplace
    \/ CombineCrash

StoreNext ==
    \/ SaveStart
    \/ ShardWriteOpen
    \/ ShardWriteClose
    \/ SaveReturn
    \/ WriterCrash
    \/ ShardsCleanedUp
    \/ CombineStart
    \/ CombineWriteOpen
    \/ CombineWriteClose
    \/ CombineReplace
    \/ CombineCrash

(***************************************************************************)
(* Properties of the data directory.                                       *)
(***************************************************************************)
IdsOf(f) == {f.rows[k].match_id : k \in 1..Len(f.rows)}

RowsOfUnit(f, u) ==
    LET OfUnit(r) == r.match_id = u IN SelectSeq(f.rows, OfUnit)

RowSet(f) == {f.rows[k] : k \in 1..Len(f.rows)}

NoDuplicateRows(f) ==
    \A j, k \in 1..Len(f.rows) : j # k => f.rows[j] # f.rows[k]

\* the directory holds complete files of the kind for exactly the units S
ShardsOnDisk(dir, kind, S) ==
    /\ {u \in UnitIds : Exists(dir[u][kind])} = S
    /\ \A u \in S : Readable(dir[u][kind])

\* the last completed run was a merge of shards {b, c} into a prior {a, b}
MergedInto(a, b, c) ==
    /\ prev_run.n > 0
    /\ prev_run.merge
    /\ Readable(prev_run.prior)
    /\ IdsOf(prev_run.prior) = {a, b}
    /\ ShardsOnDisk(prev_run.shards, table_type, {b, c})

Distinct(a, b, c) == a # b /\ b # c /\ a # c

C4_RebuildIsRepeatable ==
    (prev_run.again /\ ~prev_run.merge) =>
        /\ prev_run.out = prev_run.prev_out
        /\ prev_run.ret = prev_run.prev_ret

C4_Witness ==
    /\ prev_run.again
    /\ ~prev_run.merge
    /\ Readable(prev_run.out)
    /\ {<<1>>, <<1, 0>>} \subseteq IdsOf(prev_run.out)
    /\ prev_run.out.rows[1].match_id = <<1, 0>>

\* C5: a merge run never leaves a row twice, and a merge run that finds the
\* directory as the merge run before it did leaves the same row set and
\* returns the same count
C5_MergeIsRepeatable ==
    /\ (prev_run.n > 0 /\ prev_run.merge) => NoDuplicateRows(prev_run.out)
    /\ (prev_run.again /\ prev_run.merge) =>
          /\ RowSet(prev_run.out) = RowSet(prev_run.prev_out)
          /\ prev_run.ret = prev_run.prev_ret

C5_Witness ==
    /\ prev_run.again
    /\ prev_run.merge
    /\ Readable(prev_run.out)
    /\ \E u \in IdsOf(prev_run.out) : Loads(prev_run.shards, u, table_type)

\* a merge run has completed over a readable prior dataset
MergedOverPrior ==
    /\ prev_run.n > 0
    /\ prev_run.merge
    /\ Readable(prev_run.prior)
    /\ Readable(prev_run.out)

RebuildWrites == c_pc # "idle" /\ ~c_merge /\ table_type = "match"

\* C35: the table a full rebuild writes for the match or innings kind holds
\* rows only of units with a balls file in the directory: a match shard
\* whose unit has no balls file is never merged
C35_RebuildTakesUnitsWithBalls ==
    RebuildWrites =>
        \A k \in 1..Len(c_combined) :
            Exists(c_start.shards[c_combined[k].match_id]["balls"])

\* C35 witness: a full rebuild writes a match table while the directory
\* holds a readable match shard of a unit without balls file
C35_Witness ==
    /\ RebuildWrites
    /\ c_pc = "rename"
    /\ c_combined # <<>>
    /\ \E u \in DOMAIN shard :
          /\ Readable(shard[u]["match"])
          /\ ~Exists(shard[u]["balls"])

\* C6: the target path never holds a partial file: it holds the dataset the
\* run found there or the complete new one
C6_TargetPriorOrNew ==
    /\ out.st # "partial"
    /\ out = c_start.prior \/ out = Complete(c_combined)

C6_Witness ==
    /\ c_pc = "idle"
    /\ tmp = Partial
    /\ Readable(out)
    /\ out.rows # c_combined

\* C7 as stated: every shard file is absent or complete at every point
C7_ShardAbsentOrComplete ==
    \A u \in UnitIds, k \in Kinds : shard[u][k].st # "partial"

(***************************************************************************)
(* combine_table_type over a directory that holds a file whose name gives  *)
(* no numeric id.                                                          *)
(***************************************************************************)
\* the file "1a_{kind}.parquet": 'a' is character 97 = 48 + 49
Malformed == <<1, 49>>
NameIds == {<<1>>, <<2>>, Malformed}

\* what complete saves leave of one unit: nothing, the match file alone, both
NameShards(u) ==
    {[balls |-> Absent, match |-> Absent],
     [balls |-> Absent, match |-> Complete(ShardTable(u, "match", 1))],
     [k \in Kinds |-> Complete(ShardTable(u, k, 1))]}

NamedDirs == {dir \in [NameIds -> UNION {NameShards(u) : u \in NameIds}] :
                 \A u \in NameIds : dir[u] \in NameShards(u)}

NamesInit ==
    /\ shard \in NamedDirs
    /\ table_type \in Kinds
    /\ out \in {PriorOf(S, table_type) : S \in SUBSET {<<1>>, <<2>>}}
    /\ c_start = [shards |-> shard, prior |-> out]
    /\ saves_left = 0
    /\ cleanups_left = 0
    /\ combines_left = MaxCombines
    /\ ProcessesAtRest

\* the files of the kind the last completed run went on to read
ReadByRun(u) ==
    /\ u \in DOMAIN prev_run.shards
    /\ Readable(prev_run.shards[u][table_type])
    /\ table_type = "balls" \/ Exists(prev_run.shards[u]["balls"])
    /\ ~(/\ prev_run.merge
         /\ Readable(prev_run.prior)
         /\ ExtractMatchId(u) \in IdsOf(prev_run.prior))

\* C18: a file whose name gives no numeric id contributes no row to the
\* dataset of a run, full rebuild or merge, and every well-named file the run
\* reads beside it is in the dataset with all its rows
C18_MalformedNameSkipped ==
    prev_run.n > 0 =>
        \A u \in DOMAIN prev_run.shards :
            IF ExtractMatchId(u) = NoId
            THEN IdsOf(prev_run.out) \cap {u, NoId} = {}
            ELSE ReadByRun(u) =>
                    RowsOfUnit(prev_run.out, u) =
                        LoadTable(prev_run.shards, u, table_type)

\* a merge run that read the misnamed file and a well-named one beside it
C18_Witness ==
    /\ prev_run.n > 0
    /\ prev_run.merge
    /\ Readable(prev_run.prior)
    /\ Malformed \in DOMAIN prev_run.shards
    /\ ReadByRun(Malformed)
    /\ \E u \in {<<1>>, <<2>>} : ReadByRun(u) /\ u \in IdsOf(prev_run.out)
    /\ prev_run.out # prev_run.prior

(***************************************************************************)
(* unify_and_concat (lines 73-134), followed for one attribute: its arrow  *)
(* type in each of the tables handed in.                                   *)
(***************************************************************************)
\* pa.null(), the scalar types pa.Table.from_pylist infers, and a nested one
ArrowTypes == {"null", "bool", "int64", "double", "string", "list"}
Missing == "missing"

\* variant: the type seen first is kept
UnifyFirstSeen(existing, incoming) == existing

\* variant: no promotion between the numeric types
UnifyKeepsInteger(existing, incoming) ==
    IF existing = "null" THEN incoming
    ELSE IF existing = "string" \/ incoming = "string" THEN "string"
    ELSE existing

\* lines 88-107: the type of a field seen again
Unify(existing, incoming) ==
    IF existing = "null" THEN incoming
    ELSE IF existing = incoming THEN existing
    ELSE IF existing = "int64" /\ incoming = "double" THEN incoming
    ELSE IF existing = "double" /\ incoming = "int64" THEN existing
    ELSE IF existing = "string" \/ incoming = "string" THEN "string"
    ELSE IF existing = "large_string" \/ incoming = "large_string"
         THEN "large_string"
    ELSE existing

\* lines 83-107: all_fields[name] after the tables up to the k-th
RECURSIVE AllFields(_, _)
AllFields(ts, k) ==
    IF k = 0 THEN Missing
    ELSE LET before == AllFields(ts, k - 1) IN
           IF ts[k] = Missing THEN before
           ELSE IF before = Missing THEN ts[k]
           ELSE Unify(before, ts[k])

\* ChunkedArray.cast: done, ArrowInvalid on a value that does not convert,
\* or ArrowNotImplementedError where arrow has no such conversion
CastOutcomes(from, to) ==
    IF from = to \/ from = "null" THEN {"ok"}
    ELSE IF to = "null" \/ from = "list" \/ to = "list" THEN {"not_implemented"}
    ELSE IF from = "string" THEN {"ok", "invalid"}
    ELSE IF from = "double" /\ to = "int64" THEN {"ok", "invalid"}
    ELSE {"ok"}

NotWidened == [returned |-> FALSE, raised |-> FALSE, type |-> Missing,
               values |-> <<>>]

UnifyIdle ==
    /\ tables = <<>>
    /\ u_pc = "done"
    /\ unified_schema = Missing
    /\ unified_tables = <<>>
    /\ columns = <<>>
    /\ widened = NotWidened

\* lines 80-111: the unified schema
UnifySchema ==
    /\ u_pc = "schema"
    /\ unified_schema' = AllFields(tables, Len(tables))
    /\ u_pc' = "cast"
    /\ UNCHANGED <<tables, unified_tables, columns, widened>>
    /\ UNCHANGED <<scrapeVars, storeVars, fixtureVars, serialVars, mainVars,
                   detectVars, restVars>>

\* lines 116-132 for the next table: the cast to the unified type, the cast
\* to string where that raises, then pa.table(columns, schema=unified_schema)
\* which converts the column to the type of the schema again
CastTable ==
    /\ u_pc = "cast"
    /\ Len(unified_tables) < Len(tables)
    /\ LET type == tables[Len(unified_tables) + 1] IN
         IF unified_schema = Missing \/ type \in {Missing, unified_schema}
         THEN /\ unified_tables' = Append(unified_tables, unified_schema)
              /\ UNCHANGED u_pc
         ELSE \E first \in CastOutcomes(type, unified_schema) :
                IF first = "ok"
                THEN /\ unified_tables' = Append(unified_tables, unified_schema)
                     /\ UNCHANGED u_pc
                ELSE \E fallback \in CastOutcomes(type, "string"),
                        again \in CastOutcomes("string", unified_schema) :
                       IF fallback = "ok" /\ again = "ok"
                       THEN /\ unified_tables' =
                                  Append(unified_tables, unified_schema)
                            /\ UNCHANGED u_pc
                       ELSE /\ u_pc' = "raised"
                            /\ UNCHANGED unified_tables
    /\ UNCHANGED <<tables, unified_schema, columns, widened>>
    /\ UNCHANGED <<scrapeVars, storeVars, fixtureVars, serialVars, mainVars,
                   detectVars, restVars>>

\* line 134: pa.concat_tables(unified_tables)
ConcatUnified ==
    /\ u_pc = "cast"
    /\ Len(unified_tables) = Len(tables)
    /\ u_pc' = "done"
    /\ UNCHANGED <<tables, unified_schema, unified_tables, columns, widened>>
    /\ UNCHANGED <<scrapeVars, storeVars, fixtureVars, serialVars, mainVars,
                   detectVars, restVars>>

UnifyNext == UnifySchema \/ CastTable \/ ConcatUnified

\* the tables of a call: at least one, each with the attribute or without
UnifyInit ==
    /\ tables \in SeqsUpTo(ArrowTypes \cup {Missing}, MaxTables) \ {<<>>}
    /\ u_pc = "schema"
    /\ unified_schema = Missing
    /\ unified_tables = <<>>
    /\ columns = <<>>
    /\ widened = NotWidened

\* C19 as stated: whatever the types of the attribute in the tables,
\* unify_and_concat does not raise
C19_UnifyNeverRaises == u_pc # "raised"

NullAndString ==
    /\ Range(tables) \subseteq {"null", "string"}
    /\ Range(tables) = {"null", "string"}

\* C20: an attribute that is null-typed in some tables and string in the
\* others, in any order, is string in the unified schema and in every table
\* of the result, and the call does not raise
C20_NullBesideStringIsString ==
    NullAndString =>
        /\ u_pc # "raised"
        /\ u_pc \in {"cast", "done"} => unified_schema = "string"
        /\ Range(unified_tables) \subseteq {"string"}
        /\ u_pc = "done" => Len(unified_tables) = Len(tables)

\* the call over a null-typed table followed by a string one has returned
C20_Witness ==
    /\ u_pc = "done"
    /\ tables = <<"null", "string">>
    /\ unified_tables = <<"string", "string">>

\* the orderings of n tables
Orderings(n) == {f \in [1..n -> 1..n] : \A i, j \in 1..n : f[i] = f[j] => i = j}

Reordered(ts, f) == [k \in 1..Len(ts) |-> ts[f[k]]]

\* C39 as stated: the unified type of the attribute is the one the call
\* computes from the same tables in any other order
C39_UnifiedTypeOrderFree ==
    u_pc \in {"cast", "done"} =>
        \A f \in Orderings(Len(tables)) :
            AllFields(Reordered(tables, f), Len(tables)) = unified_schema

(***************************************************************************)
(* unify_and_concat over an int64 column and a double column, with values. *)
(* A value [hi, lo] is the integer hi * 2^53 + lo; a double holds every    *)
(* integer up to 2^53 and every other one above it.                        *)
(***************************************************************************)
IntValues == [hi : {0, 1}, lo : 0..MaxLow]

\* the double nearest to the integer, ties to the even mantissa
NearestDouble(v) ==
    IF v.hi = 0 \/ v.lo % 2 = 0 THEN v
    ELSE [hi |-> 1, lo |-> IF (v.lo - 1) % 4 = 0 THEN v.lo - 1 ELSE v.lo + 1]

DoubleValues == {NearestDouble(v) : v \in IntValues}

\* the safe cast of int64 to double takes the values within +-2^53 only
InDoubleRange(v) == v.hi = 0 \/ v.lo = 0

\* col.cast(pa.string()) of an integer, and the parse of such a text by the
\* conversion to the schema's double in pa.table
TextOf(v) == [digits |-> v]
ParseDouble(t) == NearestDouble(t.digits)

\* lines 119-126 and 131-132 for one column
CastColumn(col, type) ==
    IF col.type = "int64" /\ type = "double"
    THEN IF \A k \in 1..Len(col.values) : InDoubleRange(col.values[k])
         THEN col.values
         ELSE [k \in 1..Len(col.values) |-> ParseDouble(TextOf(col.values[k]))]
    ELSE col.values

Column(type, values) == [type |-> type, values |-> values]

\* lines 73-134 over the tables of columns
WidenCall ==
    /\ ~widened.returned
    /\ LET types == [k \in 1..Len(columns) |-> columns[k].type]
           type == AllFields(types, Len(types))
       IN widened' = [returned |-> TRUE, raised |-> FALSE, type |-> type,
                      values |-> [k \in 1..Len(columns) |->
                                     CastColumn(columns[k], type)]]
    /\ UNCHANGED <<tables, u_pc, unified_schema, unified_tables, columns>>
    /\ UNCHANGED <<scrapeVars, storeVars, fixtureVars, serialVars, mainVars,
                   detectVars, restVars>>

\* one table with the attribute as int64 and one with it as double, in
\* either order
WidenInit ==
    /\ tables = <<>>
    /\ u_pc = "done"
    /\ unified_schema = Missing
    /\ unified_tables = <<>>
    /\ \E ints \in SeqsUpTo(IntValues, MaxValues),
          doubles \in SeqsUpTo(DoubleValues, 1) :
          columns \in {<<Column("int64", ints), Column("double", doubles)>>,
                       <<Column("double", doubles), Column("int64", ints)>>}
    /\ widened = NotWidened

IntegerCells ==
    {c \in (1..Len(columns)) \X (1..MaxValues + 1) :
        /\ columns[c[1]].type = "int64"
        /\ c[2] <= Len(columns[c[1]].values)}

\* C21 as stated: the attribute is double in the result whichever table
\* comes first, and every integer value is in the result as the double equal
\* to it
C21_EveryIntegerKeptExactly ==
    widened.returned =>
        /\ ~widened.raised
        /\ widened.type = "double"
        /\ \A c \in IntegerCells :
              widened.values[c[1]][c[2]] = columns[c[1]].values[c[2]]

\* C21, amended: the attribute is double in the result whichever table comes
\* first, and every integer value of magnitude up to 2^53 is in the result
\* as the double equal to it
C21_IntegerUpTo2p53KeptExactly ==
    widened.returned =>
        /\ ~widened.raised
        /\ widened.type = "double"
        /\ \A k \in 1..Len(columns) :
              Len(widened.values[k]) = Len(columns[k].values)
        /\ \A c \in IntegerCells :
              InDoubleRange(columns[c[1]].values[c[2]]) =>
                  widened.values[c[1]][c[2]] = columns[c[1]].values[c[2]]

\* the call returned for a double table followed by an integer one that
\* holds a small non-zero value
C21_Witness ==
    /\ widened.returned
    /\ Len(columns) = 2
    /\ columns[1].type = "double"
    /\ \E c \in IntegerCells :
          /\ columns[c[1]].values[c[2]].hi = 0
          /\ columns[c[1]].values[c[2]].lo > 0
          /\ widened.values[c[1]][c[2]] = columns[c[1]].values[c[2]]

(***************************************************************************)
(* combine_table_type finding a combined dataset it cannot read (a file    *)
(* truncated or locked from outside).                                      *)
(***************************************************************************)
CorruptInit ==
    /\ shard \in LeftDirs
    /\ table_type \in Kinds
    /\ out = Partial
    /\ c_start = [shards |-> shard, prior |-> out]
    /\ saves_left = 0
    /\ cleanups_left = 0
    /\ combines_left = MaxCombines
    /\ ProcessesAtRest

\* the last completed run was a merge that could not read the dataset
MergedOverUnreadable ==
    /\ prev_run.n > 0
    /\ prev_run.merge
    /\ prev_run.prior.st = "partial"

\* the units a full rebuild takes from the directory of the last run
Rebuilt(u) ==
    /\ Loads(prev_run.shards, u, table_type)
    /\ table_type = "balls" \/ Exists(prev_run.shards[u]["balls"])

FixtureIds == {<<1>>, <<2>>}
SeriesIds == {"", "s1"}
Statuses == {"LIVE", "FINISHED"}
Formats == {"t20i", "odi"}
\* has_ball_by_ball of a discovered fixture: not set, False or True
IncomingFlags == {"", "False", "True"}

\* the columns of FIXTURE_COLUMNS the tracker works with
FIXTURE_COLUMNS ==
    <<"match_id", "series_id", "format", "status", "has_ball_by_ball">>

\* a match is of the format of its series on every discovery
FormatOf(mid) == IF mid = <<1>> THEN "t20i" ELSE "odi"

IncomingRows ==
    {f \in [match_id : FixtureIds, series_id : SeriesIds, format : Formats,
            status : Statuses, has_ball_by_ball : IncomingFlags] :
        f.format = FormatOf(f.match_id)}

\* lines 1385-1388: the flag defaults to False
Normalize(f) ==
    [f EXCEPT !.has_ball_by_ball = (f.has_ball_by_ball = "True")]

RECURSIVE NormalizeAll(_)
NormalizeAll(batch) ==
    IF batch = <<>> THEN <<>>
    ELSE <<Normalize(batch[1])>> \o NormalizeAll(Tail(batch))

HasKey(rows, mid) == \E k \in 1..Len(rows) : rows[k].match_id = mid
KeyIndex(rows, mid) == CHOOSE k \in 1..Len(rows) : rows[k].match_id = mid
RowOf(rows, mid) == rows[KeyIndex(rows, mid)]

\* variant: the incoming flag is stored as it comes
IncomingFlag(old, row) == row.has_ball_by_ball

\* lines 1414-1417: a true stored flag survives an incoming false one
MergedFlag(old, row) ==
    IF old.has_ball_by_ball /\ ~row.has_ball_by_ball
    THEN old.has_ball_by_ball
    ELSE row.has_ball_by_ball

\* the columns other than the key and the flag
DataColumns == {"series_id", "format", "status"}

\* variant: an empty incoming field keeps the stored value
MergeRowFieldwise(old, row) ==
    [c \in DOMAIN row |->
        IF c = "has_ball_by_ball" THEN MergedFlag(old, row)
        ELSE IF c \in DataColumns /\ row[c] = "" THEN old[c] ELSE row[c]]

\* lines 1413-1418: the row stored for a key already present
MergeRow(old, row) == [row EXCEPT !.has_ball_by_ball = MergedFlag(old, row)]

\* existing[mid] = row: a key keeps its place, a new key goes last
Upsert(rows, row) ==
    IF HasKey(rows, row.match_id)
    THEN [rows EXCEPT ![KeyIndex(rows, row.match_id)] = MergeRow(@, row)]
    ELSE Append(rows, row)

RECURSIVE UpsertAll(_, _)
UpsertAll(rows, normalized) ==
    IF normalized = <<>> THEN rows
    ELSE UpsertAll(Upsert(rows, normalized[1]), Tail(normalized))

TrueIds(f) ==
    {f.rows[k].match_id : k \in {j \in 1..Len(f.rows) : f.rows[j].has_ball_by_ball}}

NoCall == [op |-> "none", arg |-> <<>>, before |-> Absent, ret |-> "None"]
Call(op, arg, ret) == [op |-> op, arg |-> arg, before |-> fixtures, ret |-> ret]

\* variant: the stored table is not read before the merge
ExistingRowsNotRead(f) == <<>>

\* lines 1395-1404: the rows of the stored table, none when there is no file
ExistingRows(f) == f.rows

\* save_fixtures (lines 1371-1438)
SaveFixtures(all_fixtures) ==
    LET normalized == NormalizeAll(all_fixtures) IN
      IF normalized = <<>>
      THEN /\ f_call' = Call("save", all_fixtures, "None")
           /\ UNCHANGED <<fixtures, f_acquired>>
      ELSE IF Exists(fixtures) /\ ~Readable(fixtures)
      THEN /\ f_call' = Call("save", all_fixtures, "None")
           /\ UNCHANGED <<fixtures, f_acquired>>
      ELSE LET written == Complete(UpsertAll(ExistingRows(fixtures), normalized)) IN
             /\ fixtures' = written
             /\ f_call' = Call("save", all_fixtures, "outpath")
             /\ f_acquired' = f_acquired \cup TrueIds(written)

SaveFixturesCall ==
    /\ f_call.op = "none"
    /\ \E all_fixtures \in SeqsUpTo(IncomingRows, MaxBatch) :
          SaveFixtures(all_fixtures)
    /\ UNCHANGED notFixtures

\* lines 1452-1460: the rows with the flag of the given ids set
MarkedRows(rows, match_ids) ==
    [k \in 1..Len(rows) |->
        IF rows[k].match_id \in match_ids
        THEN [rows[k] EXCEPT !.has_ball_by_ball = TRUE]
        ELSE rows[k]]

\* mark_fixtures_scraped (lines 1441-1463)
MarkFixturesScraped(match_ids) ==
    IF ~Exists(fixtures) \/ match_ids = {} \/ ~Readable(fixtures)
    THEN /\ f_call' = Call("mark", match_ids, "None")
         /\ UNCHANGED <<fixtures, f_acquired>>
    ELSE LET written == Complete(MarkedRows(fixtures.rows, match_ids)) IN
           /\ fixtures' = written
           /\ f_call' = Call("mark", match_ids, "None")
           /\ f_acquired' = f_acquired \cup TrueIds(written)

MarkFixturesScrapedCall ==
    /\ f_call.op = "none"
    /\ \E match_ids \in SUBSET FixtureIds : MarkFixturesScraped(match_ids)
    /\ UNCHANGED notFixtures

\* the process dies inside pq.write_table(.., outpath) of line 1461
MarkFixturesScrapedKilled ==
    /\ f_call.op = "none"
    /\ Readable(fixtures)
    /\ \E match_ids \in (SUBSET FixtureIds) \ {{}} :
          f_call' = Call("mark", match_ids, "None")
    /\ fixtures' = OpenForWrite(fixtures)
    /\ UNCHANGED f_acquired
    /\ UNCHANGED notFixtures

\* _get_scraped_match_ids (lines 1301-1310)
GetScrapedMatchIds == {u \in UnitIds : Exists(shard[u]["balls"])}

NoFilter == ""

\* lines 1340-1357: the rows load_unscraped_fixtures keeps
IsUnscraped(row, fs_scraped, format_filter) ==
    /\ row.status \in {"FINISHED", "POST"}
    /\ ~row.has_ball_by_ball
    /\ row.match_id \notin fs_scraped
    /\ (format_filter = NoFilter \/ row.format = format_filter)
    /\ row.series_id # ""

RECURSIVE MatchIdsOf(_, _)
MatchIdsOf(rows, series_id) ==
    IF rows = <<>> THEN <<>>
    ELSE (IF rows[1].series_id = series_id THEN <<rows[1].match_id>> ELSE <<>>)
           \o MatchIdsOf(Tail(rows), series_id)

\* lines 1336-1368: series_id -> match_ids, in table order
SeriesMatches(rows, fs_scraped, format_filter) ==
    LET Keep(r) == IsUnscraped(r, fs_scraped, format_filter)
        kept == SelectSeq(rows, Keep)
    IN [sid \in {kept[k].series_id : k \in 1..Len(kept)} |-> MatchIdsOf(kept, sid)]

\* load_unscraped_fixtures (lines 1313-1368)
LoadUnscrapedFixtures(format_filter) ==
    /\ f_call' = Call("load", format_filter,
                      IF Readable(fixtures)
                      THEN SeriesMatches(fixtures.rows, GetScrapedMatchIds,
                                         format_filter)
                      ELSE <<>>)
    /\ UNCHANGED <<fixtures, f_acquired>>

LoadUnscrapedFixturesCall ==
    /\ f_call.op = "none"
    /\ \E format_filter \in {NoFilter} \cup Formats :
          LoadUnscrapedFixtures(format_filter)
    /\ UNCHANGED notFixtures

\* the caller goes on to its next call; the record of the last one is dropped
CallerMovesOn ==
    /\ f_call.op # "none"
    /\ f_call' = NoCall
    /\ UNCHANGED <<fixtures, f_acquired>>
    /\ UNCHANGED notFixtures

NoSerial == [initial |-> Absent, done |-> <<>>, todo |-> <<>>]

FixturesInit ==
    /\ fixtures = Absent
    /\ f_call = NoCall
    /\ f_acquired = {}
    /\ serial = NoSerial

FixturesNext ==
    \/ SaveFixturesCall
    \/ MarkFixturesScrapedCall
    \/ MarkFixturesScrapedKilled
    \/ LoadUnscrapedFixturesCall
    \/ CallerMovesOn

\* the category directory the tracker is cross-checked against
FixtureDisk ==
    /\ shard \in {SavedDir(p) : p \in {{}, {<<1>>}}}
    /\ table_type = "balls"
    /\ saves_left = 0
    /\ cleanups_left = 0
    /\ combines_left = 0
    /\ StoreAtRest

(***************************************************************************)
(* Properties of the fixture tracker.                                      *)
(***************************************************************************)
\* C8: a unit id whose stored flag has been true has a true flag in every
\* stored table after that
C8_FlagMonotonic ==
    Readable(fixtures) =>
        \A mid \in f_acquired :
            /\ HasKey(fixtures.rows, mid)
            /\ RowOf(fixtures.rows, mid).has_ball_by_ball

C8_Witness ==
    /\ f_call.op = "save"
    /\ Readable(f_call.before)
    /\ Readable(fixtures)
    /\ \E k \in 1..Len(f_call.arg) :
          /\ f_call.arg[k].has_ball_by_ball = "False"
          /\ f_call.arg[k].match_id \in TrueIds(f_call.before)
          /\ f_call.arg[k].match_id \in TrueIds(fixtures)

\* the call was a save that rewrote a readable table
SavedOver ==
    /\ f_call.op = "save"
    /\ f_call.ret = "outpath"
    /\ Readable(f_call.before)

\* the last incoming row with the key
LastIncoming(batch, mid) ==
    batch[CHOOSE k \in 1..Len(batch) :
            /\ batch[k].match_id = mid
            /\ \A j \in (k + 1)..Len(batch) : batch[j].match_id # mid]

IncomingIds(batch) == {batch[k].match_id : k \in 1..Len(batch)}

\* C11 as stated: no reader ever finds a partially written fixture table
C11_FixtureTableNeverPartial == fixtures.st # "partial"

Returned(mid) ==
    \E sid \in DOMAIN f_call.ret :
        \E k \in 1..Len(f_call.ret[sid]) : f_call.ret[sid][k] = mid

\* C10 as stated, for a call without format filter: every completed fixture
\* with a series id and no balls shard is returned whatever its flag, and a
\* fixture with a balls shard is not returned
C10_ReturnedIffNoShard ==
    (f_call.op = "load" /\ f_call.arg = NoFilter /\ Readable(fixtures)) =>
        \A k \in 1..Len(fixtures.rows) :
            LET row == fixtures.rows[k] IN
              /\ (/\ row.status \in {"FINISHED", "POST"}
                  /\ row.series_id # ""
                  /\ row.match_id \notin GetScrapedMatchIds)
                    => Returned(row.match_id)
              /\ row.match_id \in GetScrapedMatchIds => ~Returned(row.match_id)

(***************************************************************************)
(* One caller saving two batches one after the other (main, lines 1747,    *)
(* 1757 and 1814): the table it finds, then save_fixtures twice.           *)
(***************************************************************************)
SerialIds == {<<1>>, <<2>>, <<3>>}

\* discovered fixtures of finished matches of one series
SerialRows ==
    {f \in [match_id : SerialIds, series_id : {"s1"}, format : Formats,
            status : {"FINISHED"}, has_ball_by_ball : IncomingFlags] :
        f.format = FormatOf(f.match_id)}

\* the tables earlier saves leave: one row per key, in any order
SerialTables ==
    {Absent} \cup
    {Complete(NormalizeAll(b)) :
        b \in {c \in SeqsUpTo(SerialRows, Cardinality(SerialIds)) :
                 c # <<>> /\ Cardinality(IncomingIds(c)) = Len(c)}}

SerialInit ==
    /\ fixtures \in SerialTables
    /\ f_call = NoCall
    /\ f_acquired = TrueIds(fixtures)
    /\ \E first, second \in SeqsUpTo(SerialRows, MaxBatch) \ {<<>>} :
          /\ IncomingIds(first) \cap IncomingIds(second) = {}
          /\ serial = [initial |-> fixtures, done |-> <<>>,
                       todo |-> <<first, second>>]

\* the caller's next save_fixtures call
SerialSave ==
    /\ serial.todo # <<>>
    /\ SaveFixtures(Head(serial.todo))
    /\ serial' = [serial EXCEPT !.done = Append(@, Head(serial.todo)),
                                !.todo = Tail(@)]
    /\ UNCHANGED <<scrapeVars, storeVars, mainVars, unifyVars, detectVars,
                   restVars>>

BothSaved == Len(serial.done) = 2 /\ serial.todo = <<>>

\* C12: after two saves for disjoint keys, one after the other, the table
\* holds the rows of both batches and every row of the table they started
\* from: the rows of other keys as they were, no key twice
C12_BothUpsertsKept ==
    BothSaved =>
        /\ Readable(fixtures)
        /\ Cardinality(IncomingIds(fixtures.rows)) = Len(fixtures.rows)
        /\ \A n \in 1..2 : \A mid \in IncomingIds(serial.done[n]) :
              /\ HasKey(fixtures.rows, mid)
              /\ LET inc == Normalize(LastIncoming(serial.done[n], mid))
                     row == RowOf(fixtures.rows, mid)
                 IN /\ \A c \in DataColumns : row[c] = inc[c]
                    /\ inc.has_ball_by_ball => row.has_ball_by_ball
        /\ \A k \in 1..Len(serial.initial.rows) :
              LET old == serial.initial.rows[k] IN
                /\ HasKey(fixtures.rows, old.match_id)
                /\ old.has_ball_by_ball =>
                      RowOf(fixtures.rows, old.match_id).has_ball_by_ball
                /\ old.match_id \notin IncomingIds(serial.done[1])
                                         \cup IncomingIds(serial.done[2])
                      => RowOf(fixtures.rows, old.match_id) = old

\* both saves done over a table that held a key of the first batch and a key
\* of neither batch
C12_Witness ==
    /\ BothSaved
    /\ Len(fixtures.rows) = 3
    /\ \E k \in 1..Len(serial.initial.rows) :
          serial.initial.rows[k].match_id \in IncomingIds(serial.done[1])
    /\ \E k \in 1..Len(serial.initial.rows) :
          serial.initial.rows[k].match_id \notin
              IncomingIds(serial.done[1]) \cup IncomingIds(serial.done[2])

(***************************************************************************)
(* main's loop over the units of a series (lines 1828-1938) around         *)
(* scrape_match_commentary (lines 470-567) and save_all_tables.            *)
(***************************************************************************)
MainUnits == <<<<1>>, <<2>>>>

storeRest == <<out, tmp, w_pc, w_unit, w_ver, w_todo, saves_left,
               cleanups_left, table_type, c_pc, c_merge, c_combined, c_ret,
               combines_left, c_start, prev_run>>

NoResult ==
    [returned |-> FALSE, has_balls |-> FALSE, paginated |-> FALSE,
     balls |-> <<>>, match_meta |-> FALSE, innings_failures |-> <<>>]

\* lines 610-614: without balls the loop returns before any pagination
NoBallsResult(match_meta) ==
    [returned |-> TRUE, has_balls |-> FALSE, paginated |-> FALSE,
     balls |-> <<>>, match_meta |-> match_meta, innings_failures |-> <<>>]

\* lines 616-777: what the loop over the sub-units may return
LoopResults ==
    {[returned |-> TRUE, has_balls |-> TRUE, paginated |-> TRUE,
      balls |-> b, match_meta |-> m, innings_failures |-> f] :
        b \in {<<>>, <<1>>}, m \in BOOLEAN,
        f \in {<<>>, <<Failure(1, "no_ball_data")>>}}

NoException == <<>>
\* line 554 inside the handler of line 562
RetryAlsoBlocked ==
    <<"Blocked by Akamai", "Blocked by Akamai (retry also failed)">>
\* line 562-563: whatever the retry raises is wrapped
Wrapped(msg) == <<"Blocked by Akamai">> \o msg

Nav(page, title) == [page |-> page, title |-> title]

\* lines 193-202: one row of scrape_errors.csv
ErrorRow(mid, error_type, failed_innings, error_message) ==
    [match_id |-> mid, error_type |-> error_type,
     failed_innings |-> failed_innings, error_message |-> error_message]

\* lines 1907-1922: one row per failed sub-unit of the result
FailureRows(mid, fails) ==
    [k \in 1..Len(fails) |->
        ErrorRow(mid, fails[k].error_type, fails[k].innings, <<>>)]

\* variant: every unit with a saved table is marked
MarksAcquiredAlways(balls) == TRUE

\* line 1882: only a unit with balls joins scraped_match_ids
MarksAcquired(balls) == balls # <<>>

\* lines 1828-1854: the next unit, skipped when its shards are there
MainFor ==
    /\ m_pc = "for"
    /\ IF finished_matches = <<>>
       THEN /\ m_pc' = "done"
            /\ UNCHANGED <<finished_matches, match_id, navigations, capture,
                           result, raised, scraped_match_ids, at_start,
                           listening, context2>>
       ELSE LET mid == Head(finished_matches)
                already_scraped == Exists(shard[mid]["balls"])
                has_metadata == Exists(shard[mid]["match"])
            IN /\ match_id' = mid
               /\ finished_matches' = Tail(finished_matches)
               /\ navigations' = <<>>
               /\ capture' = ""
               /\ result' = NoResult
               /\ raised' = NoException
               /\ listening' = FALSE
               /\ context2' = "none"
               /\ at_start' = [rows |-> Len(error_log), shard |-> shard[mid],
                               scraped |-> scraped_match_ids]
               /\ IF ~force /\ already_scraped
                  THEN /\ scraped_match_ids' = Append(scraped_match_ids, mid)
                       /\ m_pc' = "for"
                  ELSE /\ UNCHANGED scraped_match_ids
                       /\ m_pc' = IF ~force /\ has_metadata /\ skip_metadata_only
                                  THEN "for" ELSE "goto"
    /\ UNCHANGED <<force, skip_metadata_only, error_log>>
    /\ UNCHANGED <<scrapeVars, storeVars, fixtureVars, serialVars, unifyVars,
                   detectVars, restVars>>

\* lines 497-529: the first page load, recovered or not, and its title
Goto ==
    /\ m_pc = "goto"
    /\ \E outcome \in {"loaded", "recovered", "crashed"},
          title \in {"ok", "access denied"} :
          /\ IF outcome = "crashed"
             THEN /\ navigations' = <<Nav("page", "")>>
                  /\ raised' = <<"goto">>
                  /\ m_pc' = "except"
                  /\ UNCHANGED capture
             ELSE /\ navigations' =
                        IF outcome = "recovered"
                        THEN <<Nav("page", ""), Nav("page", title)>>
                        ELSE <<Nav("page", title)>>
                  /\ capture' = IF title = "ok" THEN "api_responses" ELSE ""
                  /\ m_pc' = IF title = "ok" THEN "loop" ELSE "retry"
                  /\ UNCHANGED raised
          \* line 494 attaches on_response; lines 505, 511 and 517 detach it
          /\ listening' = (outcome # "crashed" /\ title = "ok")
    /\ UNCHANGED <<force, skip_metadata_only, finished_matches, match_id,
                   result, scraped_match_ids, error_log, at_start, context2>>
    /\ UNCHANGED <<scrapeVars, storeVars, fixtureVars, serialVars, unifyVars,
                   detectVars, restVars>>

\* lines 519-563: one more load in a fresh context with its own capture list
Retry ==
    /\ m_pc = "retry"
    /\ \E title \in {"ok", "access denied", ""} :
          /\ navigations' = Append(navigations, Nav("page2", title))
          /\ IF title = "ok"
             THEN /\ capture' = "api_responses2"
                  /\ m_pc' = "loop"
                  /\ UNCHANGED raised
             ELSE /\ raised' = IF title = "access denied"
                                THEN RetryAlsoBlocked ELSE Wrapped(<<"goto">>)
                  /\ m_pc' = "except"
                  /\ UNCHANGED capture
          \* line 521 opens the context; only lines 553-554 close it here
          /\ context2' = IF title = "access denied" THEN "closed" ELSE "open"
    /\ UNCHANGED <<force, skip_metadata_only, finished_matches, match_id,
                   result, scraped_match_ids, error_log, at_start, listening>>
    /\ UNCHANGED <<scrapeVars, storeVars, fixtureVars, serialVars, unifyVars,
                   detectVars, restVars>>

\* lines 559-560 and 566: after the loop returned, the listener is removed
\* and the fresh context, if there is one, is closed
Detach ==
    /\ listening' = FALSE
    /\ context2' = IF context2 = "open" THEN "closed" ELSE context2

\* variant: the records of a sub-unit are written as soon as it is merged
InningsLoopPersisting ==
    /\ m_pc = "loop"
    /\ \/ /\ \E r \in LoopResults \cup {NoBallsResult(m) : m \in BOOLEAN} :
                /\ result' = r
                /\ shard' = IF r.balls # <<>>
                            THEN [shard EXCEPT ![match_id]["balls"] =
                                    Complete(ShardTable(match_id, "balls", 1))]
                            ELSE shard
                /\ m_pc' = IF r.balls # <<>> /\ result.balls = <<>>
                           THEN "loop" ELSE "save"
          /\ UNCHANGED raised
          /\ Detach
       \/ /\ raised' = IF capture = "api_responses2"
                        THEN Wrapped(<<"driver fault">>)
                        ELSE <<"driver fault">>
          /\ m_pc' = "except"
          /\ UNCHANGED <<result, shard, listening, context2>>
    /\ UNCHANGED <<force, skip_metadata_only, finished_matches, match_id,
                   navigations, capture, scraped_match_ids, error_log,
                   at_start>>
    /\ UNCHANGED <<scrapeVars, storeRest, fixtureVars, serialVars, unifyVars,
                   detectVars, restVars>>

\* lines 558 and 565: _scrape_innings_loop returns or raises
InningsLoop ==
    /\ m_pc = "loop"
    /\ \/ /\ \E r \in LoopResults \cup {NoBallsResult(m) : m \in BOOLEAN} :
                result' = r
          /\ m_pc' = "save"
          /\ UNCHANGED raised
          /\ Detach
       \/ /\ raised' = IF capture = "api_responses2"
                        THEN Wrapped(<<"driver fault">>)
                        ELSE <<"driver fault">>
          /\ m_pc' = "except"
          /\ UNCHANGED <<result, listening, context2>>
    /\ UNCHANGED <<force, skip_metadata_only, finished_matches, match_id,
                   navigations, capture, scraped_match_ids, error_log,
                   at_start>>
    /\ UNCHANGED <<scrapeVars, storeVars, fixtureVars, serialVars, unifyVars,
                   detectVars, restVars>>

\* the kinds written before the write of kind fail raises
WrittenBefore(todo, fail) ==
    {todo[k] : k \in {j \in 1..Len(todo) :
                        \A i \in 1..j : todo[i] # fail}}

\* lines 1874-1922: save_all_tables, the acquired list, the failure rows
SaveTables ==
    /\ m_pc = "save"
    /\ LET todo == IF result.balls # <<>> \/ result.match_meta
                   THEN KindsToWrite(result.balls # <<>>, result.match_meta)
                   ELSE <<>>
       IN \E fail \in {"none"} \cup Range(todo) :
            /\ shard' = [shard EXCEPT ![match_id] =
                  [k \in Kinds |->
                      IF k \in WrittenBefore(todo, fail)
                      THEN Complete(ShardTable(match_id, k, 1))
                      ELSE @[k]]]
            /\ IF fail = "none"
               THEN /\ scraped_match_ids' =
                          IF todo # <<>> /\ MarksAcquired(result.balls)
                          THEN Append(scraped_match_ids, match_id)
                          ELSE scraped_match_ids
                    /\ error_log' = error_log \o
                          FailureRows(match_id, result.innings_failures)
                    /\ m_pc' = "for"
                    /\ UNCHANGED raised
               ELSE /\ raised' = <<"write">>
                    /\ m_pc' = "except"
                    /\ UNCHANGED <<scraped_match_ids, error_log>>
    /\ UNCHANGED <<force, skip_metadata_only, finished_matches, match_id,
                   navigations, capture, result, at_start, listening,
                   context2>>
    /\ UNCHANGED <<scrapeVars, storeRest, fixtureVars, serialVars, unifyVars,
                   detectVars, restVars>>

\* lines 1923-1936: the handler of the unit's try block
Except ==
    /\ m_pc = "except"
    /\ error_log' = Append(error_log,
                           ErrorRow(match_id, "match_error", 0, raised))
    /\ m_pc' = "for"
    /\ UNCHANGED <<force, skip_metadata_only, finished_matches, match_id,
                   navigations, capture, result, raised, scraped_match_ids,
                   at_start, listening, context2>>
    /\ UNCHANGED <<scrapeVars, storeVars, fixtureVars, serialVars, unifyVars,
                   detectVars, restVars>>

MainNext ==
    \/ MainFor
    \/ Goto
    \/ Retry
    \/ InningsLoop
    \/ SaveTables
    \/ Except

NoStartOfUnit == [rows |-> 0, shard |-> EmptyDir[<<1>>], scraped |-> <<>>]

\* the category directories a run may find: empty, unit 2 saved whole, unit
\* 2 saved with its match table alone
MainDirs ==
    {EmptyDir, SavedDir({<<2>>}),
     [EmptyDir EXCEPT ![<<2>>]["match"] = Complete(ShardTable(<<2>>, "match", 1))]}

MainInit ==
    /\ force \in BOOLEAN
    /\ skip_metadata_only \in BOOLEAN
    /\ finished_matches = MainUnits
    /\ m_pc = "for"
    /\ match_id = <<1>>
    /\ navigations = <<>>
    /\ capture = ""
    /\ result = NoResult
    /\ raised = NoException
    /\ scraped_match_ids = <<>>
    /\ error_log = <<>>
    /\ at_start = NoStartOfUnit
    /\ listening = FALSE
    /\ context2 = "none"
    /\ shard \in MainDirs
    /\ table_type = "balls"
    /\ saves_left = 0
    /\ cleanups_left = 0
    /\ combines_left = 0
    /\ StoreAtRest
    /\ UnifyIdle

MainAtRest ==
    /\ force = FALSE
    /\ skip_metadata_only = FALSE
    /\ finished_matches = <<>>
    /\ m_pc = "done"
    /\ match_id = <<1>>
    /\ navigations = <<>>
    /\ capture = ""
    /\ result = NoResult
    /\ raised = NoException
    /\ scraped_match_ids = <<>>
    /\ error_log = <<>>
    /\ at_start = NoStartOfUnit
    /\ listening = FALSE
    /\ context2 = "none"

MainIdle == MainAtRest /\ UnifyIdle

\* the unit just processed ended in the handler / returned from the try block
UnitFailed == m_pc = "for" /\ raised # NoException
UnitReturned == m_pc = "for" /\ raised = NoException /\ result.returned

LastRow == error_log[Len(error_log)]

BlockedTwice ==
    /\ Len(navigations) >= 2
    /\ navigations[Len(navigations)] = Nav("page2", "access denied")
    /\ navigations[Len(navigations) - 1] = Nav("page", "access denied")

\* C13 as stated: a unit blocked on its first load and on its one retry in a
\* fresh context is recorded with error kind blocked, after two loads
C13_BlockedTwiceRecordedAsBlocked ==
    (UnitFailed /\ BlockedTwice) =>
        /\ Len(SelectSeq(navigations, LAMBDA n : n.title = "access denied")) = 2
        /\ Len(SelectSeq(navigations, LAMBDA n : n.page = "page2")) = 1
        /\ LastRow.match_id = match_id
        /\ LastRow.error_type = "blocked"

\* C16: a unit whose snapshot holds no balls is not paginated and returns
\* no records; no balls shard is written for it, its match shard is written
\* when metadata was extracted, and it does not join the acquired list
C16_NoBallsIsMetadataOnly ==
    (UnitReturned /\ ~result.has_balls) =>
        /\ ~result.paginated
        /\ result.balls = <<>>
        /\ shard[match_id]["balls"] = at_start.shard["balls"]
        /\ result.match_meta =>
              shard[match_id]["match"] =
                  Complete(ShardTable(match_id, "match", 1))
        /\ scraped_match_ids = at_start.scraped

\* a unit without balls whose metadata was extracted and saved
C16_Witness ==
    /\ UnitReturned
    /\ ~result.has_balls
    /\ result.match_meta
    /\ Readable(shard[match_id]["match"])
    /\ ~Exists(shard[match_id]["balls"])
    /\ ~Exists(at_start.shard["match"])

\* C17 as stated: a unit that ended in an exception has exactly one new row
\* in the error log, no shard written and no entry in the acquired list
C17_FailedUnitLeavesNothing ==
    UnitFailed =>
        /\ Len(error_log) = at_start.rows + 1
        /\ LastRow.match_id = match_id
        /\ shard[match_id] = at_start.shard
        /\ scraped_match_ids = at_start.scraped

\* scrape_match_commentary has not returned, or has raised
ScraperAtWork ==
    \/ m_pc \in {"goto", "retry", "loop"}
    \/ m_pc = "except" /\ raised # <<"write">>

\* C32: while the scraper is processing a unit, and when it gives the unit up
\* with an exception, the shards of the unit on disk are those that were
\* there when the unit began: nothing is written before all sub-units are
\* done
C32_NothingWrittenMidUnit ==
    ScraperAtWork => shard[match_id] = at_start.shard

\* C32 witness: a unit that had a shard on disk is given up mid-unit, after
\* the page had loaded
C32_Witness ==
    /\ m_pc = "except"
    /\ raised = <<"driver fault">>
    /\ capture = "api_responses"
    /\ Exists(at_start.shard["match"])

ScrapeIdle ==
    /\ dropdown = PlainTitles
    /\ default_shown = 1
    /\ button_text = PlainTitles[1]
    /\ snapshot = <<>>
    /\ shown = 1
    /\ payloads_left = 0
    /\ faults_left = 0
    /\ pc = "done"
    /\ available_innings = <<>>
    /\ innings_idx = 0
    /\ attempt = 0
    /\ api_responses = <<>>
    /\ ssr_balls = <<>>
    /\ scroll_i = 0
    /\ recovery = NoRecovery
    /\ prev_count = 0
    /\ stale_rounds = 0
    /\ innings_balls = <<>>
    /\ all_balls = <<>>
    /\ innings_failures = <<>>

(***************************************************************************)
(* Re-running a sub-unit against the same source: what the merge of lines  *)
(* 729-747 returns is fixed by the seeded records and the captured         *)
(* payloads, in their order.                                               *)
(***************************************************************************)
\* the records the source has supplied, in the order the merge reads them
Candidates == ssr_balls \o FilterBalls(FlattenComments(api_responses))

\* the positions holding the first occurrence of a truthy id
FirstSeen(c) ==
    {i \in 1..Len(c) :
        c[i].id # 0 /\ \A j \in 1..(i - 1) : c[j].id # c[i].id}

\* C23: two runs over the same source behaviour return the same record list
\* in the same order: the merged list is the one sequence the supplied
\* records determine, their first occurrences in key order, records of equal
\* key in the order the source supplied them
C23_ResultDeterminedBySource ==
    pc = "head" =>
        LET c == Candidates
            K == FirstSeen(c)
            n == Len(innings_balls)
        IN  /\ n = Cardinality(K)
            /\ \E p \in [1..n -> K] :
                  /\ \A k \in 1..n : innings_balls[k] = c[p[k]]
                  /\ \A k, l \in 1..n :
                        k < l =>
                          \/ KeyLess(c[p[k]], c[p[l]])
                          \/ /\ ~KeyLess(c[p[l]], c[p[k]])
                             /\ p[k] < p[l]

\* C23 witness: a merge has returned two different records of equal key
C23_Witness ==
    /\ pc = "head"
    /\ \E k \in 1..(Len(innings_balls) - 1) :
          /\ innings_balls[k].id # innings_balls[k + 1].id
          /\ ~KeyLess(innings_balls[k], innings_balls[k + 1])
          /\ ~KeyLess(innings_balls[k + 1], innings_balls[k])

\* the captured records, in capture order
Captured == FilterBalls(FlattenComments(api_responses))

WithId(s, i) == {k \in 1..Len(s) : s[k].id = i}

Min(S) == CHOOSE k \in S : \A j \in S : k <= j

\* C26: of the records that carry one id, the merged list holds the seeded
\* one when the snapshot has the id, and else the one captured earliest
C26_FirstOccurrenceWins ==
    pc = "head" =>
        \A k \in 1..Len(innings_balls) :
            LET i == innings_balls[k].id IN
              IF WithId(ssr_balls, i) # {}
              THEN innings_balls[k] = ssr_balls[Min(WithId(ssr_balls, i))]
              ELSE /\ WithId(Captured, i) # {}
                   /\ innings_balls[k] = Captured[Min(WithId(Captured, i))]

\* C26 witness: a merge where an id came from the snapshot and, as another
\* record, from a captured payload, and where an id was captured twice as
\* different records
C26_Witness ==
    /\ pc = "head"
    /\ \E j \in 1..Len(ssr_balls), k \in 1..Len(Captured) :
          /\ ssr_balls[j].id = Captured[k].id
          /\ ssr_balls[j].id # 0
          /\ ssr_balls[j] # Captured[k]
    /\ \E j, k \in 1..Len(Captured) :
          /\ j < k
          /\ Captured[j].id = Captured[k].id
          /\ Captured[j].id # 0
          /\ Captured[j] # Captured[k]
          /\ WithId(ssr_balls, Captured[j].id) = {}

\* the loop is about to make another interaction (line 697)
StartsInteraction == pc = "scroll" /\ scroll_i < MaxScrolls

\* C27 as stated: whenever the pagination loop starts another interaction,
\* fewer than 5 consecutive rounds have gone without a new payload, rounds
\* counted stale after a recovered driver fault included
C27_StaleBelowLimitAtEveryRound ==
    StartsInteraction => stale_rounds < StaleLimit

\* the round just made captured at least one payload
NewPayloadInRound == pc = "scroll" /\ Len(api_responses') > Len(api_responses)

LastCaptured == api_responses'[Len(api_responses')]

SubUnitSteps == SwitchAttempts + MaxScrolls + 5

\* the steps left within the current sub-unit
StepsLeftInSubUnit ==
    CASE pc = "head" -> SubUnitSteps
      [] pc = "switch" -> (SwitchAttempts - attempt) + MaxScrolls + 4
      [] pc = "ssr" -> MaxScrolls + 4
      [] pc = "clear" -> MaxScrolls + 3
      [] pc = "scroll" -> (MaxScrolls - scroll_i) + 2
      [] pc = "merge" -> 1
      [] OTHER -> 0

LongestList ==
    IF Len(DiscoverResult) > Len(FallbackInnings)
    THEN Len(DiscoverResult) ELSE Len(FallbackInnings)

\* a measure of the work left in _scrape_innings_loop
StepsLeft ==
    CASE pc \in {"done", "raised"} -> 0
      [] pc = "check" -> (LongestList + 1) * (SubUnitSteps + 1) + 2
      [] pc = "discover" -> (LongestList + 1) * (SubUnitSteps + 1) + 1
      [] OTHER -> (Len(available_innings) - innings_idx) * (SubUnitSteps + 1)
                    + StepsLeftInSubUnit

C30_FailureOnlyAfterThirdAttempt ==
    [][(/\ pc = "switch"
        /\ faults_left' = faults_left
        /\ innings_failures' # innings_failures)
          => attempt = SwitchAttempts - 1]_vars

\* C31 as stated: after a fault of a scroll interaction the recovery tries
\* the reload and then the direct navigation to the unit's page; it gives up
\* (and the pagination of the sub-unit is aborted) only when both have
\* failed, so never while a direct navigation would work
C31_AbortOnlyWhenBothStepsFailed ==
    (recovery.called /\ ~recovery.ret) =>
        (~recovery.reload /\ ~recovery.goto_works)

\* the capture list a keeps every payload of the capture list b, in order
KeepsPayloads(a, b) == Len(a) >= Len(b) /\ SubSeq(a, 1, Len(b)) = b

\* C36 as stated: a payload captured for the sub-unit being processed, after
\* the switch to it and before its pagination ends, is in the capture list
\* that the sub-unit's merge reads: neither the clearing before the
\* pagination nor a pagination round drops it, and the merge takes every
\* captured record with an id
C36_CapturedPayloadsReachMerge ==
    [][/\ (pc = "clear" /\ pc' = "scroll") =>
             KeepsPayloads(api_responses', api_responses)
       /\ (pc = "scroll" /\ pc' \in {"scroll", "merge"}) =>
             KeepsPayloads(api_responses', api_responses)
       /\ (pc = "merge" /\ pc' = "head") =>
             CapturedIds(api_responses)
                \subseteq {innings_balls'[k].id : k \in 1..Len(innings_balls')}
      ]_vars

(***************************************************************************)
(* _detect_format and _detect_gender (lines 780-827) on the metadata       *)
(* record of lines 584-595.  A JSON value carries its Python type; strings *)
(* are sequences of characters.                                            *)
(***************************************************************************)
MaxClassId == 4
MaxTeams == 2

JNull == [t |-> "null", n |-> 0, s |-> <<>>]
JInt(n) == [t |-> "int", n |-> n, s |-> <<>>]
\* a float with a whole value, 2.0
JFloat(n) == [t |-> "float", n |-> n, s |-> <<>>]
JTrue == [t |-> "bool", n |-> 1, s |-> <<>>]
JStr(cs) == [t |-> "str", n |-> 0, s |-> cs]

NumberTypes == {"int", "float", "bool"}

\* == and hash of Python, as a dict lookup applies them: 1 == 1.0 == True
PyEq(a, b) ==
    IF a.t \in NumberTypes /\ b.t \in NumberTypes
    THEN a.n = b.n
    ELSE a.t = b.t /\ a.s = b.s

\* bool(x): None, 0 and "" are false
Truthy(a) ==
    CASE a.t = "null" -> FALSE
      [] a.t = "str" -> a.s # <<>>
      [] OTHER -> a.n # 0

UpperChar(c) ==
    CASE c = "o" -> "O" [] c = "d" -> "D" [] c = "i" -> "I"
      [] c = "m" -> "M" [] c = "t" -> "T" [] OTHER -> c

LowerChar(c) ==
    CASE c = "M" -> "m" [] c = "A" -> "a" [] c = "L" -> "l" [] c = "E" -> "e"
      [] c = "F" -> "f" [] c = "W" -> "w" [] c = "O" -> "o" [] c = "N" -> "n"
      [] OTHER -> c

\* str.upper and str.lower, character by character
Upper(cs) == [k \in 1..Len(cs) |-> UpperChar(cs[k])]
Lower(cs) == [k \in 1..Len(cs) |-> LowerChar(cs[k])]

\* str.endswith
EndsWith(cs, suffix) ==
    /\ Len(cs) >= Len(suffix)
    /\ SubSeq(cs, Len(cs) - Len(suffix) + 1, Len(cs)) = suffix

\* lines 780-793: one dict, the integer keys and the string keys together
FORMAT_MAP ==
    << <<JInt(1), "test">>, <<JInt(2), "odi">>, <<JInt(3), "t20i">>,
       <<JStr(<<"T", "E", "S", "T">>), "test">>,
       <<JStr(<<"O", "D", "I">>), "odi">>,
       <<JStr(<<"T", "2", "0", "I">>), "t20i">>,
       <<JStr(<<"T", "2", "0">>), "t20i">>,
       <<JStr(<<"M", "D", "M">>), "test">>,
       <<JStr(<<"O", "D", "M">>), "odi">>,
       <<JStr(<<"I", "T", "2", "0">>), "t20i">> >>

\* key in FORMAT_MAP
InFormatMap(key) == \E k \in DOMAIN FORMAT_MAP : PyEq(FORMAT_MAP[k][1], key)

\* FORMAT_MAP[key]
FormatAt(key) ==
    FORMAT_MAP[CHOOSE k \in DOMAIN FORMAT_MAP : PyEq(FORMAT_MAP[k][1], key)][2]

\* what a detector returns, and the rule whose return statement gave it
\* (0: the final return None)
ReturnAt(value, rule) == [value |-> value, rule |-> rule]

\* lines 796-807
DetectFormat(ic) ==
    LET class_id == ic.internationalClassId
        fmt_str == ic.matchFormat
    IN  IF Truthy(class_id) /\ InFormatMap(class_id)
        THEN ReturnAt(FormatAt(class_id), 1)
        ELSE IF Truthy(fmt_str) /\ InFormatMap(JStr(Upper(fmt_str.s)))
             THEN ReturnAt(FormatAt(JStr(Upper(fmt_str.s))), 2)
             ELSE ReturnAt("None", 0)

Male == <<"m", "a", "l", "e">>
Female == <<"f", "e", "m", "a", "l", "e">>
Women == <<"w", "o", "m", "e", "n">>

\* all(t.endswith("-W") for t in teams if t)
AllTeamsEndInW(teams) ==
    \A k \in 1..Len(teams) :
        teams[k] # <<>> => EndsWith(teams[k], <<"-", "W">>)

\* lines 810-827
DetectGender(ic) ==
    LET gender == ic.gender
        teams == ic.teams
    IN  IF Truthy(gender)
        THEN IF Lower(gender.s) \in {Male, Female}
             THEN ReturnAt(JStr(Lower(gender.s)), 1)
             ELSE ReturnAt(JNull, 1)
        ELSE IF teams # <<>> /\ AllTeamsEndInW(teams)
             THEN ReturnAt(JStr(Female), 2)
             ELSE IF Includes(Lower(ic.slug), Women)
                  THEN ReturnAt(JStr(Female), 3)
                  ELSE ReturnAt(JNull, 0)

\* the values match.internationalClassId, match.format, match.gender, the
\* team abbreviations and match.slug may hold
ClassIds ==
    {JNull, JFloat(2), JTrue, JStr(<<"O", "D", "I">>), JStr(<<"1">>)}
      \cup {JInt(n) : n \in 0..MaxClassId}
FormatLabels ==
    {JNull, JStr(<<>>), JStr(<<"O", "D", "I">>), JStr(<<"o", "d", "i">>),
     JStr(<<"O", "d", "i">>), JStr(<<"m", "d", "m">>), JStr(<<"T", "1", "0">>)}
GenderLabels ==
    {JNull, JStr(<<>>), JStr(Male), JStr(<<"F", "e", "m", "a", "l", "e">>),
     JStr(<<"m", "e", "n">>)}
TeamLabels == {<<>>, <<"I">>, <<"I", "-", "W">>, <<"A", "-", "W">>}
Slugs ==
    {<<>>, <<"a", "-", "m", "e", "n">>, <<"a", "-", "w", "o", "m", "e", "n">>,
     <<"W", "o", "m", "e", "n">>}

NoCheck ==
    [internationalClassId |-> JNull, matchFormat |-> JNull, gender |-> JNull,
     teams |-> <<>>, slug |-> <<>>]
NotDetected == [called |-> FALSE]

DetectIdle ==
    /\ initial_check = NoCheck
    /\ detected = [called |-> TRUE, format |-> DetectFormat(NoCheck),
                   gender |-> DetectGender(NoCheck)]

DetectInit ==
    /\ initial_check \in
         [internationalClassId : ClassIds, matchFormat : FormatLabels,
          gender : GenderLabels, teams : SeqsUpTo(TeamLabels, MaxTeams),
          slug : Slugs]
    /\ detected = NotDetected

\* lines 603-604
DetectCall ==
    /\ ~detected.called
    /\ detected' = [called |-> TRUE, format |-> DetectFormat(initial_check),
                    gender |-> DetectGender(initial_check)]
    /\ UNCHANGED initial_check
    /\ UNCHANGED <<scrapeVars, storeVars, fixtureVars, serialVars, mainVars,
                   unifyVars, restVars>>

\* C24 as stated: the category is the code table's entry when the integer
\* classification code is 1, 2 or 3, else the string table's entry of the
\* upper-cased format label, else None; a classification code that is not an
\* integer never selects a category through rule 1
C24_CodeRuleOnlyForIntegers ==
    detected.called =>
        LET class_id == initial_check.internationalClassId
            fmt_str == initial_check.matchFormat
        IN  /\ class_id.t = "int" /\ class_id.n \in 1..3 =>
                detected.format = ReturnAt(FormatAt(class_id), 1)
            /\ class_id.t # "int" => detected.format.rule # 1
            /\ ~(class_id.t = "int" /\ class_id.n \in 1..3) =>
                 IF Truthy(fmt_str) /\ InFormatMap(JStr(Upper(fmt_str.s)))
                 THEN detected.format.value = FormatAt(JStr(Upper(fmt_str.s)))
                 ELSE detected.format.value = "None"

\* the subgroup label is one of the two canonical values, in any case
Canonical(gender) == gender.t = "str" /\ Lower(gender.s) \in {Male, Female}

\* C25 as stated: the subgroup is given by the first of three rules that
\* matches (canonical subgroup label, all team labels with the suffix,
\* keyword in the slug) and is undetermined only when none matches, so with a
\* label that is present but not canonical rules 2 and 3 still decide
C25_NonCanonicalLabelFallsThrough ==
    detected.called =>
        LET ic == initial_check
            rule2 == ic.teams # <<>> /\ AllTeamsEndInW(ic.teams)
            rule3 == Includes(Lower(ic.slug), Women)
        IN  IF Canonical(ic.gender)
            THEN detected.gender.value = JStr(Lower(ic.gender.s))
            ELSE IF rule2 \/ rule3
                 THEN detected.gender.value = JStr(Female)
                 ELSE detected.gender.value = JNull

\* some team label is a non-empty string ending in "-W"
SomeTeamEndsInW(teams) ==
    \E k \in 1..Len(teams) :
        teams[k] # <<>> /\ EndsWith(teams[k], <<"-", "W">>)

\* C40 as stated: without subgroup label, without the keyword in the slug and
\* without a non-empty team label ending in the suffix, the subgroup is
\* undetermined; a team list of empty labels alone never gives "female"
C40_NoEvidenceIsUndetermined ==
    detected.called =>
        LET ic == initial_check IN
          (/\ ~Truthy(ic.gender)
           /\ ~Includes(Lower(ic.slug), Women)
           /\ ~SomeTeamEndsInW(ic.teams))
             => detected.gender.value = JNull

(***************************************************************************)
(* The merge filter of combine_table_type (lines 167-171 and 197-199) on    *)
(* a prior dataset whose match_id column holds integers or strings.  File   *)
(* ids and strings are sequences of characters.                             *)
(***************************************************************************)
MaxIdValue == 11
MaxPriorRows == 2

DigitChars == <<"0", "1", "2", "3", "4", "5", "6", "7", "8", "9">>

\* str(n) of a non-negative integer
RECURSIVE Decimal(_)
Decimal(n) ==
    IF n < 10 THEN <<DigitChars[n + 1]>>
    ELSE Decimal(n \div 10) \o <<DigitChars[(n % 10) + 1]>>

\* variant: the values are not converted, an integer equals no file id
StrOfStringsOnly(x) ==
    IF x.t = "str" THEN x.s ELSE <<"N", "o", "n", "e">>

\* str(x) for the values of the column: integers, strings and None
Str(x) ==
    CASE x.t = "int" -> Decimal(x.n)
      [] x.t = "str" -> x.s
      [] OTHER -> <<"N", "o", "n", "e">>

\* line 171: existing_ids = set(str(x) for x in ...to_pylist())
StrIds(column) == {Str(column[k]) : k \in 1..Len(column)}

\* str.isdigit
IsDigit(cs) ==
    cs # <<>> /\ \A k \in 1..Len(cs) : \E d \in 1..10 : cs[k] = DigitChars[d]

\* extract_match_id on the id part of a file name (lines 142-143)
ExtractId(cs) == IF IsDigit(cs) THEN JStr(cs) ELSE JNull

\* lines 198-199: the files whose id is not among existing_ids
FilterNew(files, existing_ids) ==
    IF existing_ids # {}
    THEN {f \in files :
            ExtractId(f).t = "null" \/ ExtractId(f).s \notin existing_ids}
    ELSE files

\* scrape_match_commentary has returned or raised for the unit
CallEnded == m_pc \in {"save", "except"}

\* C38 as stated: when scrape_match_commentary returns or raises, on every
\* exit path, the listener it registered is no longer attached to the shared
\* page and a fresh context it opened has been closed
C38_NothingLeftAttached ==
    CallEnded => ~listening /\ context2 # "open"

(***************************************************************************)
(* Two scrapers without --fixtures-file in save_fixtures at once (lines     *)
(* 1371-1438): both work on {output_dir}/fixtures.parquet and on the one   *)
(* temporary path fixtures.parquet.tmp. A file that is renamed while a     *)
(* process has it open keeps receiving that process's writes.              *)
(***************************************************************************)
Writers == {1, 2}

\* a process outside save_fixtures
NoWriter ==
    [pc |-> "done", batch |-> <<>>, rows |-> <<>>, fd |-> "none",
     mixed |-> FALSE, ret |-> "None"]

RaceIdle ==
    /\ writers = [w \in Writers |-> NoWriter]
    /\ fixture_tmp = Absent

\* the table the two find: none, or one row of an earlier save; each has a
\* batch of its own, the two batches for different units
RaceInit ==
    /\ fixtures \in {t \in SerialTables : Len(t.rows) <= 1}
    /\ f_call = NoCall
    /\ f_acquired = TrueIds(fixtures)
    /\ serial = NoSerial
    /\ fixture_tmp = Absent
    /\ \E first, second \in SeqsUpTo(SerialRows, MaxBatch) \ {<<>>} :
          /\ IncomingIds(first) \cap IncomingIds(second) = {}
          /\ writers =
               [w \in Writers |->
                  [NoWriter EXCEPT !.pc = "read",
                                   !.batch = IF w = 1 THEN first ELSE second]]

Others(w) == Writers \ {w}

\* lines 1394-1408: read the stored table, or give up on an unreadable one
RaceRead(w) ==
    /\ writers[w].pc = "read"
    /\ writers' =
         [writers EXCEPT ![w] =
            IF Exists(fixtures) /\ ~Readable(fixtures)
            THEN [@ EXCEPT !.pc = "done", !.ret = "None"]
            ELSE [@ EXCEPT !.pc = "merge", !.rows = ExistingRows(fixtures)]]
    /\ UNCHANGED <<fixtures, f_acquired, fixture_tmp>>

\* lines 1410-1429: the upsert of the batch into the rows read
RaceMerge(w) ==
    /\ writers[w].pc = "merge"
    /\ writers' =
         [writers EXCEPT ![w] =
            [@ EXCEPT !.pc = "open",
                      !.rows = UpsertAll(@, NormalizeAll(writers[w].batch))]]
    /\ UNCHANGED <<fixtures, f_acquired, fixture_tmp>>

\* line 1433, pq.write_table begins: the temporary path is created or
\* truncated; a process that has the same file open now shares it
RaceOpen(w) ==
    /\ writers[w].pc = "open"
    /\ fixture_tmp' = Partial
    /\ LET shared == {v \in Others(w) : writers[v].fd = "tmp"} IN
         writers' =
           [v \in Writers |->
              IF v = w
              THEN [writers[v] EXCEPT !.pc = "close", !.fd = "tmp",
                                      !.mixed = shared # {}]
              ELSE IF v \in shared
                   THEN [writers[v] EXCEPT !.mixed = TRUE]
                   ELSE writers[v]]
    /\ UNCHANGED <<fixtures, f_acquired>>

\* what the file holds when a process has written its table and closes: its
\* table, or an unreadable mix if another process wrote the same file
Written(w) ==
    IF writers[w].mixed
    THEN {Complete(writers[w].rows), Partial}
    ELSE {Complete(writers[w].rows)}

\* line 1433, pq.write_table ends: the content is in the file the process
\* opened, wherever that file is by now
RaceClose(w) ==
    /\ writers[w].pc = "close"
    /\ \E content \in Written(w) :
          /\ fixture_tmp' =
                IF writers[w].fd = "tmp" THEN content ELSE fixture_tmp
          /\ fixtures' =
                IF writers[w].fd = "file" THEN content ELSE fixtures
    /\ f_acquired' =
          IF Readable(fixtures') THEN f_acquired \cup TrueIds(fixtures')
          ELSE f_acquired
    /\ writers' = [writers EXCEPT ![w] = [@ EXCEPT !.pc = "rename",
                                                   !.fd = "none"]]

\* line 1434, tmppath.replace(outpath): whatever is at the temporary path
\* becomes the fixture file; without a file there the call raises and
\* lines 1436-1438 return None
RaceRename(w) ==
    /\ writers[w].pc = "rename"
    /\ IF Exists(fixture_tmp)
       THEN /\ fixtures' = fixture_tmp
            /\ fixture_tmp' = Absent
            /\ f_acquired' =
                  IF Readable(fixture_tmp)
                  THEN f_acquired \cup TrueIds(fixture_tmp)
                  ELSE f_acquired
            /\ writers' =
                 [v \in Writers |->
                    IF v = w
                    THEN [writers[v] EXCEPT !.pc = "done", !.ret = "outpath"]
                    ELSE IF writers[v].fd = "tmp"
                         THEN [writers[v] EXCEPT !.fd = "file"]
                         ELSE IF writers[v].fd = "file"
                              THEN [writers[v] EXCEPT !.fd = "gone"]
                              ELSE writers[v]]
       ELSE /\ writers' = [writers EXCEPT ![w] = [@ EXCEPT !.pc = "done",
                                                          !.ret = "None"]]
            /\ UNCHANGED <<fixtures, f_acquired, fixture_tmp>>

\* what a step of save_fixtures leaves alone
RaceRest ==
    /\ UNCHANGED <<f_call, serial>>
    /\ UNCHANGED <<scrapeVars, storeVars, mainVars, unifyVars, detectVars,
                   idVars>>

\* either process takes its next step
SaveRead == \E w \in Writers : RaceRead(w) /\ RaceRest
SaveMerge == \E w \in Writers : RaceMerge(w) /\ RaceRest
SaveOpen == \E w \in Writers : RaceOpen(w) /\ RaceRest
SaveClose == \E w \in Writers : RaceClose(w) /\ RaceRest
SaveRename == \E w \in Writers : RaceRename(w) /\ RaceRest

RaceNext ==
    \/ SaveRead
    \/ SaveMerge
    \/ SaveOpen
    \/ SaveClose
    \/ SaveRename

BothWritersDone == \A w \in Writers : writers[w].pc = "done"

\* C37 as stated: two upserts for different units, their steps interleaved
\* in any way on the same fixture file, leave a table that holds the rows
\* of both batches, and the temporary path is never renamed into place
\* with partial content
C37_ConcurrentUpsertsBothKept ==
    /\ fixtures.st # "partial"
    /\ BothWritersDone =>
          /\ Readable(fixtures)
          /\ \A w \in Writers : \A mid \in IncomingIds(writers[w].batch) :
                HasKey(fixtures.rows, mid)

\* the ids of the file names in the directory: plain, with a leading zero,
\* of two digits, and one that is not a number
FileIds == {<<"1">>, <<"0", "1">>, <<"1", "0">>, <<"2">>, <<"1", "a">>}

IntColumn == {JNull} \cup {JInt(n) : n \in 0..MaxIdValue}
StrColumn == {JNull} \cup {JStr(f) : f \in FileIds \ {<<"1", "a">>}}

NotFiltered == [done |-> FALSE, files |-> {}]

IdsIdle ==
    /\ existing_column = <<>>
    /\ id_files = {}
    /\ id_kept = NotFiltered

RestIdle == IdsIdle /\ RaceIdle

IdsInit ==
    /\ existing_column \in
         SeqsUpTo(IntColumn, MaxPriorRows) \cup SeqsUpTo(StrColumn, MaxPriorRows)
    /\ id_files \in SUBSET FileIds
    /\ id_kept = NotFiltered

\* lines 167-171 and 197-199 of a merge run
IdFilter ==
    /\ ~id_kept.done
    /\ id_kept' = [done |-> TRUE,
                   files |-> FilterNew(id_files, StrIds(existing_column))]
    /\ UNCHANGED <<existing_column, id_files>>
    /\ UNCHANGED <<scrapeVars, storeVars, fixtureVars, serialVars, mainVars,
                   unifyVars, detectVars, raceVars>>

\* the number a string of digits denotes
RECURSIVE DigitsValue(_)
DigitsValue(cs) ==
    IF cs = <<>> THEN 0
    ELSE 10 * DigitsValue(SubSeq(cs, 1, Len(cs) - 1))
           + (CHOOSE d \in 0..9 : DigitChars[d + 1] = cs[Len(cs)])

\* f is the way Python writes the integer n: its digits, no leading zero
WritesInteger(f, n) ==
    /\ IsDigit(f)
    /\ DigitsValue(f) = n
    /\ Len(f) = 1 \/ f[1] # "0"

\* the file id is the string form of a value of the column
Represented(f) ==
    \E k \in 1..Len(existing_column) :
        LET x == existing_column[k] IN
          \/ x.t = "str" /\ x.s = f
          \/ x.t = "int" /\ WritesInteger(f, x.n)

\* C34: the merge filter drops a file exactly when the id parsed from its
\* name is the string form of a match_id value of the prior dataset, for a
\* column of integers as for a column of strings
C34_ExcludedIffStringFormPresent ==
    id_kept.done =>
        \A f \in id_files :
            IsDigit(f) => (f \notin id_kept.files <=> Represented(f))

\* C34 witness: a column of integers holding 10 made the filter drop the
\* file of unit "10" and keep the file of unit "01" beside a value 1
C34_Witness ==
    /\ id_kept.done
    /\ existing_column = <<JInt(10), JInt(1)>>
    /\ <<"1", "0">> \in id_files \ id_kept.files
    /\ <<"0", "1">> \in id_kept.files

(***************************************************************************)
(* Specifications.                                                         *)
(***************************************************************************)
InitScrape == ScrapeInit /\ StoreIdle /\ FixturesInit /\ MainIdle /\ DetectIdle /\ RestIdle
SpecScrape == InitScrape /\ [][ScrapeNext]_vars

InitMerge == MergeInit /\ StoreIdle /\ FixturesInit /\ MainIdle /\ DetectIdle /\ RestIdle
SpecMerge == InitMerge /\ [][MergeStep]_vars

InitStore == ScrapeIdle /\ StoreInit /\ FixturesInit /\ MainIdle /\ DetectIdle /\ RestIdle
SpecStore == InitStore /\ [][StoreNext]_vars

InitCombine == ScrapeIdle /\ CombineInit /\ FixturesInit /\ MainIdle /\ DetectIdle /\ RestIdle
SpecCombine == InitCombine /\ [][CombineNext]_vars

InitFixtures == ScrapeIdle /\ FixtureDisk /\ FixturesInit /\ MainIdle /\ DetectIdle /\ RestIdle
SpecFixtures == InitFixtures /\ [][FixturesNext]_vars

InitSerial == ScrapeIdle /\ StoreIdle /\ SerialInit /\ MainIdle /\ DetectIdle /\ RestIdle
SpecSerial == InitSerial /\ [][SerialSave]_vars

InitPaginate == PaginateInit /\ StoreIdle /\ FixturesInit /\ MainIdle /\ DetectIdle /\ RestIdle
SpecPaginate == InitPaginate /\ [][PaginateNext]_vars

InitNames == ScrapeIdle /\ NamesInit /\ FixturesInit /\ MainIdle /\ DetectIdle /\ RestIdle
SpecNames == InitNames /\ [][CombineNext]_vars

InitUnify == ScrapeIdle /\ StoreIdle /\ FixturesInit /\ MainAtRest /\ UnifyInit /\ DetectIdle /\ RestIdle
SpecUnify == InitUnify /\ [][UnifyNext]_vars

InitWiden == ScrapeIdle /\ StoreIdle /\ FixturesInit /\ MainAtRest /\ WidenInit /\ DetectIdle /\ RestIdle
SpecWiden == InitWiden /\ [][WidenCall]_vars

InitCorrupt == ScrapeIdle /\ CorruptInit /\ FixturesInit /\ MainIdle /\ DetectIdle /\ RestIdle
SpecCorrupt == InitCorrupt /\ [][CombineNext]_vars

InitMain == ScrapeIdle /\ MainInit /\ FixturesInit /\ DetectIdle /\ RestIdle
SpecMain == InitMain /\ [][MainNext]_vars

InitDetect ==
    ScrapeIdle /\ StoreIdle /\ FixturesInit /\ MainIdle /\ DetectInit /\ RestIdle
SpecDetect == InitDetect /\ [][DetectCall]_vars

InitIds ==
    /\ ScrapeIdle /\ StoreIdle /\ FixturesInit /\ MainIdle /\ DetectIdle
    /\ IdsInit /\ RaceIdle
SpecIds == InitIds /\ [][IdFilter]_vars

InitRace ==
    /\ ScrapeIdle /\ StoreIdle /\ RaceInit /\ MainIdle /\ DetectIdle /\ IdsIdle
SpecRace == InitRace /\ [][RaceNext]_vars

====
